---- MODULE Spec2Model ----
(***************************************************************************)
(* A model of the explode crate: the canonical Huffman cursor (codes.rs),  *)
(* the three built-in tables (tables.rs), the resumable decompression      *)
(* engine Explode / ExplodeBuffer (explode.rs), the whole-buffer driver    *)
(* explode_with_buffer, the pull adapter ExplodeReader (reader.rs) and     *)
(* the older revision of the engine and its driver (decoder.rs).           *)
(*                                                                         *)
(* Sequences are 1-based: the Rust index k is the TLA+ index k + 1.        *)
(* A panic of the Rust program is the outcome "Panic".                     *)
(***************************************************************************)
EXTENDS Integers, Sequences, FiniteSets, TLC

\* ------------------------------------------------------------------------
\* Bounds of the model
\* ------------------------------------------------------------------------
\* longest token part (the bytes after the two header bytes) of the
\* enumerated streams
MaxBody == 3
\* largest output buffer handed to explode_with_buffer by the enumeration
MaxBuf == 3
\* largest read buffer of the enumerated ExplodeReader::read calls
MaxRead == 2
\* code-length lists: at most MaxSyms lengths, each at most MaxCodeLen
MaxSyms == 4
MaxCodeLen == 3
\* packed lists: at most MaxPacked bytes
MaxPacked == 2
\* bits fed to one cursor
MaxFeed == 4
\* bits fed to a cursor that has been fed max_len bits
MaxOver == 1
\* bytes offered to one ExplodeInput
MaxTaken == 2
\* feed calls made by a caller of the engine
MaxCalls == 5
\* a run of explode_with_buffer or of ExplodeReader::read is cut after
\* 2^RunDepth loop iterations
RunDepth == 13

\* ------------------------------------------------------------------------
\* Program constants
\* ------------------------------------------------------------------------
\* capacity of the window, ArrayDeque<[u8; 4096], Wrapping>
WindowCap == 4096
\* the buffer explode() allocates
ExplodeBuf == 4096
\* the length that ends the stream
EndLen == 519

\* Option<u8>: None, Some(v)
None == <<>>
Some(v) == <<v>>
\* no feed call has returned yet
NoRet == "None"

LEN_BASE == <<3, 2, 4, 5, 6, 7, 8, 9, 10, 12, 16, 24, 40, 72, 136, 264>>
LEN_EXTRA == <<0, 0, 0, 0, 0, 0, 0, 0, 1, 2, 3, 4, 5, 6, 7, 8>>

\* ------------------------------------------------------------------------
\* Integer helpers
\* ------------------------------------------------------------------------
Min(a, b) == IF a < b THEN a ELSE b

Pow2(n) == 2^n

\* a | b on naturals
RECURSIVE BitOr(_, _)
BitOr(a, b) ==
    IF a = 0 THEN b
    ELSE IF b = 0 THEN a
    ELSE (IF a % 2 = 1 \/ b % 2 = 1 THEN 1 ELSE 0)
         + 2 * BitOr(a \div 2, b \div 2)

\* [v; n]
Fill(v, n) == [k \in 1..n |-> v]

\* ------------------------------------------------------------------------
\* codes.rs: CanonicalHuffman and its bit-at-a-time Decoder
\* ------------------------------------------------------------------------
\* CanonicalHuffman::new(counts, symbols)
new(counts, symbols) ==
    [max_len |-> Len(counts), counts |-> counts, symbols |-> symbols]

\* u8 arithmetic without overflow checks
U8 == 256

\* a build with overflow checks (debug) panics where one without (release)
\* wraps; checked says which build runs

\* for len in lengths.iter() { counts[*len as usize] += 1 } over the
\* entries lo..hi of lengths; t is [res, counts]
RECURSIVE Tally(_, _, _, _, _)
TallyOne(t, len, checked) ==
    IF t.res # "Ok" THEN t
    ELSE IF t.counts[len + 1] + 1 >= U8
    THEN IF checked
         THEN [t EXCEPT !.res = "Panic"]
         ELSE [t EXCEPT !.counts[len + 1] = 0]
    ELSE [t EXCEPT !.counts[len + 1] = @ + 1]

Tally(t, lengths, lo, hi, checked) ==
    IF t.res # "Ok" \/ lo > hi THEN t
    ELSE IF lo = hi THEN TallyOne(t, lengths[lo], checked)
    ELSE Tally(Tally(t, lengths, lo, (lo + hi) \div 2, checked),
               lengths, (lo + hi) \div 2 + 1, hi, checked)

\* the check for oversubscription from length len on: symbols_left is a
\* u8 (it is compared with counts[len]), and <<= drops the bit shifted out
RECURSIVE Oversubscribed(_, _, _)
OversubscribedAt(counts, len, shifted) ==
    IF shifted < counts[len + 1] THEN TRUE
    ELSE Oversubscribed(counts, len + 1, shifted - counts[len + 1])

Oversubscribed(counts, len, symbols_left) ==
    IF len >= Len(counts) THEN FALSE
    ELSE OversubscribedAt(counts, len, (symbols_left * 2) % U8)

\* offsets[len + 1] = offsets[len] + counts[len] for len in 1..max_len-1,
\* after offsets[1] = 0
RECURSIVE Offsets(_, _, _)
Offsets(offsets, counts, len) ==
    IF len >= Len(counts) - 1 THEN offsets
    ELSE Offsets([offsets EXCEPT ![len + 2] = offsets[len + 1] + counts[len + 1]],
                 counts, len + 1)

\* the loop that fills symbols, over the symbols lo..hi (0-based);
\* b is [offsets, symbols]
RECURSIVE Place(_, _, _, _)
PlaceOne(b, len, symbol) ==
    IF len > 0
    THEN [offsets |-> [b.offsets EXCEPT ![len + 1] = @ + 1],
          symbols |-> [b.symbols EXCEPT ![b.offsets[len + 1] + 1] =
                                            symbol % U8]]
    ELSE b

Place(b, lengths, lo, hi) ==
    IF b.symbols = <<>> \/ lo > hi THEN b
    ELSE IF lo = hi THEN PlaceOne(b, lengths[lo + 1], lo)
    ELSE Place(Place(b, lengths, lo, (lo + hi) \div 2),
               lengths, (lo + hi) \div 2 + 1, hi)

Max(a, b) == IF a > b THEN a ELSE b

\* lengths.iter().max().unwrap_or(&0), over the entries lo..hi
RECURSIVE MaxOf(_, _, _)
MaxOf(lengths, lo, hi) ==
    IF lo > hi THEN 0
    ELSE IF lo = hi THEN lengths[lo]
    ELSE Max(MaxOf(lengths, lo, (lo + hi) \div 2),
             MaxOf(lengths, (lo + hi) \div 2 + 1, hi))

\* new_from_lengths after the tally t: kind is "Some", "None" or "Panic"
Build(t, lengths) ==
    IF t.res # "Ok" THEN [kind |-> "Panic", t |-> <<>>]
    ELSE IF t.counts[1] = Len(lengths)
    THEN \* empty table
         [kind |-> "Some",
          t |-> [max_len |-> Len(t.counts), counts |-> t.counts,
                 symbols |-> <<>>]]
    ELSE IF Oversubscribed(t.counts, 1, 1)
    THEN [kind |-> "None", t |-> <<>>]
    ELSE IF Len(t.counts) < 2
    THEN \* offsets[1] = 0 is out of bounds
         [kind |-> "Panic", t |-> <<>>]
    ELSE [kind |-> "Some",
          t |-> [max_len |-> Len(t.counts), counts |-> t.counts,
                 symbols |->
                     Place([offsets |-> Offsets(Fill(0, Len(t.counts)),
                                                t.counts, 1),
                            symbols |-> Fill(0, Len(lengths))],
                           lengths, 0, Len(lengths) - 1).symbols]]

\* CanonicalHuffman::new_from_lengths
new_from_lengths(lengths, checked) ==
    Build(Tally([res |-> "Ok", counts |-> Fill(0, MaxOf(lengths, 1, Len(lengths)) + 1)],
                lengths, 1, Len(lengths), checked),
          lengths)

\* the lengths a packed list stands for: each byte 0xHL is H + 1 symbols
\* of length L
RECURSIVE Expand(_, _)
Expand(packed, k) ==
    IF k > Len(packed) THEN <<>>
    ELSE Fill(packed[k] % 16, packed[k] \div 16 + 1) \o Expand(packed, k + 1)

\* the array lengths has 256 entries
MaxSymbols == 256

\* CanonicalHuffman::new_from_packed_lengths
new_from_packed_lengths(packed, checked) ==
    IF Len(Expand(packed, 1)) > MaxSymbols
    THEN \* lengths[symbol] is out of bounds
         [kind |-> "Panic", t |-> <<>>]
    ELSE new_from_lengths(Expand(packed, 1), checked)

\* CanonicalHuffman::decoder
decoder(codebook) ==
    [codebook |-> codebook, code |-> 0, bits |-> 0, index |-> 0, first |-> 0]

\* a cursor that forgets self.index += count
DecoderCompare_StaleIndex(d, code, nbits) ==
    IF nbits >= d.codebook.max_len
    THEN [d |-> [d EXCEPT !.code = code, !.bits = nbits],
          res |-> "Invalid", v |-> 0]
    ELSE IF code < d.first + d.codebook.counts[nbits + 1]
    THEN \* symbols[index + (code - first)]; the u32 subtraction and the
         \* index are checked by the Rust run time
         IF code < d.first
            \/ d.index + (code - d.first) >= Len(d.codebook.symbols)
         THEN [d |-> [d EXCEPT !.code = code, !.bits = nbits],
               res |-> "Panic", v |-> 0]
         ELSE [d |-> [d EXCEPT !.code = code, !.bits = nbits],
               res |-> "Ok",
               v |-> d.codebook.symbols[d.index + (code - d.first) + 1]]
    ELSE IF code > d.first + d.codebook.counts[nbits + 1]
    THEN [d |-> [d EXCEPT !.code = code, !.bits = nbits],
          res |-> "Invalid", v |-> 0]
    ELSE IF nbits + 1 >= d.codebook.max_len
    THEN [d |-> [d EXCEPT !.code = code, !.bits = nbits],
          res |-> "Invalid", v |-> 0]
    ELSE [d |-> [d EXCEPT !.bits = nbits,
                          !.first = (@ + d.codebook.counts[nbits + 1]) * 2,
                          !.code = code * 2],
          res |-> "Incomplete", v |-> 0]

\* a cursor that forgets self.code <<= 1
DecoderCompare_CodeUnshifted(d, code, nbits) ==
    IF nbits >= d.codebook.max_len
    THEN [d |-> [d EXCEPT !.code = code, !.bits = nbits],
          res |-> "Invalid", v |-> 0]
    ELSE IF code < d.first + d.codebook.counts[nbits + 1]
    THEN \* symbols[index + (code - first)]; the u32 subtraction and the
         \* index are checked by the Rust run time
         IF code < d.first
            \/ d.index + (code - d.first) >= Len(d.codebook.symbols)
         THEN [d |-> [d EXCEPT !.code = code, !.bits = nbits],
               res |-> "Panic", v |-> 0]
         ELSE [d |-> [d EXCEPT !.code = code, !.bits = nbits],
               res |-> "Ok",
               v |-> d.codebook.symbols[d.index + (code - d.first) + 1]]
    ELSE IF code > d.first + d.codebook.counts[nbits + 1]
    THEN [d |-> [d EXCEPT !.code = code, !.bits = nbits],
          res |-> "Invalid", v |-> 0]
    ELSE IF nbits + 1 >= d.codebook.max_len
    THEN [d |-> [d EXCEPT !.code = code, !.bits = nbits],
          res |-> "Invalid", v |-> 0]
    ELSE [d |-> [d EXCEPT !.bits = nbits,
                          !.index = @ + d.codebook.counts[nbits + 1],
                          !.first = (@ + d.codebook.counts[nbits + 1]) * 2,
                          !.code = code],
          res |-> "Incomplete", v |-> 0]

\* Decoder::feed after self.code |= bit; self.bits += 1.  code and first
\* are u32 in the source; a cursor is fed fewer than max_len <= 16 bits, so
\* they stay below 2^17 and the shifts never wrap.
DecoderCompare(d, code, nbits) ==
    IF nbits >= d.codebook.max_len
    THEN [d |-> [d EXCEPT !.code = code, !.bits = nbits],
          res |-> "Invalid", v |-> 0]
    ELSE IF code < d.first + d.codebook.counts[nbits + 1]
    THEN \* symbols[index + (code - first)]; the u32 subtraction and the
         \* index are checked by the Rust run time
         IF code < d.first
            \/ d.index + (code - d.first) >= Len(d.codebook.symbols)
         THEN [d |-> [d EXCEPT !.code = code, !.bits = nbits],
               res |-> "Panic", v |-> 0]
         ELSE [d |-> [d EXCEPT !.code = code, !.bits = nbits],
               res |-> "Ok",
               v |-> d.codebook.symbols[d.index + (code - d.first) + 1]]
    ELSE IF code > d.first + d.codebook.counts[nbits + 1]
    THEN [d |-> [d EXCEPT !.code = code, !.bits = nbits],
          res |-> "Invalid", v |-> 0]
    ELSE IF nbits + 1 >= d.codebook.max_len
    THEN [d |-> [d EXCEPT !.code = code, !.bits = nbits],
          res |-> "Invalid", v |-> 0]
    ELSE [d |-> [d EXCEPT !.bits = nbits,
                          !.index = @ + d.codebook.counts[nbits + 1],
                          !.first = (@ + d.codebook.counts[nbits + 1]) * 2,
                          !.code = code * 2],
          res |-> "Incomplete", v |-> 0]

\* Decoder::feed: the cursor after one bit and the DecodeResult
DecoderFeed(d, bit) ==
    DecoderCompare(d, BitOr(d.code, IF bit THEN 1 ELSE 0), d.bits + 1)

\* CanonicalHuffman::decode(bits) from the bit k on with the cursor d:
\* None or Some(symbol); a panic of the cursor is "Panic"
RECURSIVE decode_from(_, _, _)
decode_fed(r, bitseq, k) ==
    CASE r.res = "Incomplete" -> decode_from(r.d, bitseq, k + 1)
      [] r.res = "Invalid" -> None
      [] r.res = "Ok" -> Some(r.v)
      [] OTHER -> "Panic"

decode_from(d, bitseq, k) ==
    IF k > Len(bitseq) THEN None
    ELSE decode_fed(DecoderFeed(d, bitseq[k]), bitseq, k)

\* CanonicalHuffman::decode
huffman_decode(codebook, bitseq) == decode_from(decoder(codebook), bitseq, 1)

\* ------------------------------------------------------------------------
\* tables.rs: the three built-in tables
\* ------------------------------------------------------------------------
LITERAL ==
    new(<<0, 0, 0, 0, 1, 11, 20, 21, 16, 7, 5, 10, 91, 74>>,
        <<32, 69, 97, 101, 105, 108, 110, 111, 114, 115, 116,
          117, 45, 49, 65, 67, 68, 73, 76, 78, 79, 82,
          83, 84, 98, 99, 100, 102, 103, 104, 109, 112, 10,
          13, 40, 41, 44, 46, 48, 50, 51, 52, 53, 55,
          56, 61, 66, 70, 77, 80, 85, 107, 119, 9, 34,
          39, 42, 47, 54, 57, 58, 71, 72, 87, 91, 95,
          118, 120, 121, 43, 62, 75, 86, 88, 89, 93, 33,
          36, 38, 113, 122, 0, 60, 63, 74, 81, 90, 92,
          106, 123, 124, 1, 2, 3, 4, 5, 6, 7, 8,
          11, 12, 14, 15, 16, 17, 18, 19, 20, 21, 22,
          23, 24, 25, 27, 28, 29, 30, 31, 35, 37, 59,
          64, 94, 96, 125, 126, 127, 176, 177, 178, 179, 180,
          181, 182, 183, 184, 185, 186, 187, 188, 189, 190, 191,
          192, 193, 194, 195, 196, 197, 198, 199, 200, 201, 202,
          203, 204, 205, 206, 207, 208, 209, 210, 211, 212, 213,
          214, 215, 216, 217, 218, 219, 220, 221, 222, 223, 225,
          229, 233, 238, 242, 243, 244, 26, 128, 129, 130, 131,
          132, 133, 134, 135, 136, 137, 138, 139, 140, 141, 142,
          143, 144, 145, 146, 147, 148, 149, 150, 151, 152, 153,
          154, 155, 156, 157, 158, 159, 160, 161, 162, 163, 164,
          165, 166, 167, 168, 169, 170, 171, 172, 173, 174, 175,
          224, 226, 227, 228, 230, 231, 232, 234, 235, 236, 237,
          239, 240, 241, 245, 246, 247, 248, 249, 250, 251, 252,
          253, 254, 255>>)

LENGTH ==
    new(<<0, 0, 1, 3, 3, 4, 3, 2>>,
        <<0, 1, 2, 3, 4, 5, 6, 7, 8, 9, 10, 11, 12, 13, 14, 15>>)

DISTANCE ==
    new(<<0, 0, 1, 0, 2, 4, 15, 26, 16>>,
        [k \in 1..64 |-> k - 1])

\* ------------------------------------------------------------------------
\* explode.rs: the engine.  A machine m is the Explode (dec), the
\* ExplodeBuffer bound to it (decbuf) and the history of the run (hist):
\*   hist.taken  the bytes moved from the input slot into the bit buffer
\*   hist.out    the bytes written to output buffers, in order
\*   hist.refs   one record per DistanceExtra that got its extra bits:
\*               len, symbol, extra_bits, extra (the bits read), dist,
\*               wlen (window.len()), nout (bytes written before it),
\*               bad (it returned BadDistance), idx (of the Copy entered)
\*   hist.invalid  a cursor has returned Invalid to ExplodeInput::decode
\*   hist.fatal  None until feed first returns BadLiteralFlag, BadDictionary
\*               or BadDistance; then Some of the bytes written and the
\*               header fields at that return
\*   hist.edges  one record per kind of assignment to state made so far:
\*               the variants before and after, lit, the bit read last
\*               (when leaving Start), len (when leaving Copy), symbol
\*               and the extra bits read (when leaving LengthExtra) and
\*               the len of the new state (Distance or Copy); for a new
\*               state Copy: its idx is inside the window, its idx is 0,
\*               and, when leaving Copy, the old idx plus 1 had reached
\*               window.len() (wrapped) or is the new idx (stepped)
\*   hist.arm    the variant of the arm the loop of feed entered last
\*   hist.got    the value of the bits call that returned Ok last
\* and, kept by the actions of SpecBits only:
\*   hist.reads  the record of the bits call that returned Ok last: n, the
\*               value returned, the n bits of the bytes taken that follow
\*               the bits consumed before (want), the bytes the call took
\*               from the slot, bitcount at its return and whether bitbuf
\*               then held a bit above the bitcount lowest ones (spill)
\*   hist.consumed  the sum of n over the bits calls that returned Ok
\*   hist.seen   the number of bytes taken when bits last returned Ok
\*   hist.left   bitbuf and bitcount when bits last returned Ok
\*   hist.mark   the number of bytes taken when feed was last called
\* ------------------------------------------------------------------------
Waiting == [tag |-> "Waiting", value |-> 0]
Taken == [tag |-> "Taken", value |-> 0]
Available(value) == [tag |-> "Available", value |-> value]

\* Explode::new
ExplodeNew ==
    [state |-> [tag |-> "Start"],
     lit |-> None,
     dict |-> None,
     input |-> [next |-> Waiting, bitbuf |-> 0, bitcount |-> 0],
     window |-> <<>>]

NoHist ==
    [taken |-> <<>>, out |-> <<>>, refs |-> <<>>,
     invalid |-> FALSE, fatal |-> None,
     edges |-> {}, arm |-> "Start",
     reads |-> {}, consumed |-> 0, seen |-> 0,
     left |-> [bitbuf |-> 0, bitcount |-> 0], mark |-> 0, got |-> 0]

\* Explode::with_buffer: a handle on a buffer of n bytes with pos = 0
with_buffer(dec, bufcontent) == [buf |-> bufcontent, pos |-> 0]

\* ExplodeBuffer::get
get(decbuf) == SubSeq(decbuf.buf, 1, decbuf.pos)

\* ExplodeBuffer::reset
reset(decbuf) == [decbuf EXCEPT !.pos = 0]

\* Explode::done
done(dec) == dec.state.tag = "End"

\* a slot that latches when it is not Waiting
slot_feed_Inverted(next, value) ==
    IF next.tag # "Waiting" THEN Available(value) ELSE next

\* a slot that latches again once its byte is taken
slot_feed_Taken(next, value) ==
    IF next.tag = "Available" THEN next ELSE Available(value)

\* a slot that latches every byte offered
slot_feed_Always(next, value) == Available(value)

\* ExplodeInputState::feed
slot_feed(next, value) ==
    IF next.tag = "Waiting" THEN Available(value) ELSE next

\* a take that leaves the byte in the slot
take_Again(m) ==
    CASE m.dec.input.next.tag = "Available" ->
           [m |-> [m EXCEPT !.hist.taken = Append(@, m.dec.input.next.value)],
            res |-> "Ok", val |-> m.dec.input.next.value]
      [] m.dec.input.next.tag = "Taken" ->
           [m |-> [m EXCEPT !.dec.input.next = Waiting],
            res |-> "IncompleteInput", val |-> 0]
      [] OTHER ->
           [m |-> m, res |-> "Panic", val |-> 0]

\* ExplodeInputState::take on the slot of m
take(m) ==
    CASE m.dec.input.next.tag = "Available" ->
           [m |-> [m EXCEPT !.dec.input.next = Taken,
                            !.hist.taken = Append(@, m.dec.input.next.value)],
            res |-> "Ok", val |-> m.dec.input.next.value]
      [] m.dec.input.next.tag = "Taken" ->
           [m |-> [m EXCEPT !.dec.input.next = Waiting],
            res |-> "IncompleteInput", val |-> 0]
      [] OTHER ->
           \* panic!("double take")
           [m |-> m, res |-> "Panic", val |-> 0]

\* bit k (from 0) of the byte sequence taken, the bits of each byte counted
\* from the least significant one
BitAt(taken, k) == (taken[k \div 8 + 1] \div Pow2(k % 8)) % 2

\* ExplodeInput::bits: read n bits.  bitbuf is a u32 holding fewer than 16
\* bits (a byte is or-ed in only when bitcount < n <= 8).
RECURSIVE bits(_, _)

\* the body of the while loop of bits, t being what take returned
\* a fill that forgets to shift the new byte above the bits held
bitsFill_Unshifted(t, n) ==
    IF t.res # "Ok"
    THEN t
    ELSE bits([t.m EXCEPT
                 !.dec.input.bitbuf = BitOr(@, t.val),
                 !.dec.input.bitcount = (@ + 8) % 256],
              n)

bitsFill(t, n) ==
    IF t.res # "Ok"
    THEN t
    ELSE bits([t.m EXCEPT
                 !.dec.input.bitbuf =
                     BitOr(@, t.val * Pow2(t.m.dec.input.bitcount)),
                 !.dec.input.bitcount = (@ + 8) % 256],
              n)

bits(m, n) ==
    IF m.dec.input.bitcount < n
    THEN bitsFill(take(m), n)
    ELSE [m |-> [m EXCEPT !.dec.input.bitbuf = @ \div Pow2(n),
                          !.dec.input.bitcount = @ - n,
                          !.hist.got = m.dec.input.bitbuf % Pow2(n)],
          res |-> "Ok",
          val |-> m.dec.input.bitbuf % Pow2(n)]

\* ExplodeInput::decode: decode one symbol with the cursor d
RECURSIVE decode(_, _)

\* the match on what the cursor returned for the bit (r)
decodeFed(m, r) ==
    CASE r.res = "Incomplete" -> decode(m, r.d)
      [] r.res = "Ok" -> [m |-> m, d |-> r.d, res |-> "Ok", val |-> r.v]
      [] r.res = "Invalid" ->
           \* panic!("Codebooks are under-subscribed ...")
           [m |-> [m EXCEPT !.hist.invalid = TRUE],
            d |-> r.d, res |-> "Panic", val |-> 0]
      [] OTHER ->
           \* the cursor panicked
           [m |-> m, d |-> r.d, res |-> "Panic", val |-> 0]

\* let bit = self.bits(1)? != 1: codes are inverted from canonical
decodeBit(b, d) ==
    IF b.res # "Ok"
    THEN [m |-> b.m, d |-> d, res |-> b.res, val |-> 0]
    ELSE decodeFed(b.m, DecoderFeed(d, b.val # 1))

decode(m, d) == decodeBit(bits(m, 1), d)

\* a full deque that refuses the new value
push_back_Saturating(window, value) ==
    IF Len(window) >= WindowCap
    THEN window
    ELSE Append(window, value)

\* ArrayDeque<_, Wrapping>::push_back
push_back(window, value) ==
    IF Len(window) >= WindowCap
    THEN Append(Tail(window), value)
    ELSE Append(window, value)

\* window.push_back(value); buf[pos] = value; pos += 1
Emit(m, value) ==
    [m EXCEPT !.dec.window = push_back(@, value),
              !.decbuf.buf[m.decbuf.pos + 1] = value,
              !.decbuf.pos = @ + 1,
              !.hist.out = Append(@, value)]

\* the bit of the input consumed last: bit k of the bytes taken, k being
\* the number of bits consumed before it
LastBit(m) ==
    BitAt(m.hist.taken, 8 * Len(m.hist.taken) - m.dec.input.bitcount - 1)

\* the record of the assignment self.parent.state = st for hist.edges
Edge(m, st) ==
    [from |-> m.dec.state.tag, to |-> st.tag, lit |-> m.dec.lit,
     flag |-> IF m.dec.state.tag = "Start" THEN LastBit(m) ELSE 0,
     len |-> IF m.dec.state.tag = "Copy" THEN m.dec.state.len ELSE 0,
     symbol |-> IF m.dec.state.tag = "LengthExtra"
                THEN m.dec.state.symbol ELSE 0,
     extra |-> IF m.dec.state.tag = "LengthExtra" THEN m.hist.got ELSE 0,
     carried |-> IF st.tag \in {"Distance", "Copy"} THEN st.len ELSE 0,
     inside |-> st.tag = "Copy" => st.idx < Len(m.dec.window),
     zero |-> st.tag = "Copy" /\ st.idx = 0,
     wrapped |-> /\ m.dec.state.tag = "Copy"
                 /\ st.tag = "Copy"
                 /\ m.dec.state.idx + 1 >= Len(m.dec.window),
     stepped |-> /\ m.dec.state.tag = "Copy"
                 /\ st.tag = "Copy"
                 /\ st.idx = m.dec.state.idx + 1]

\* self.parent.state = st
Goto(m, st) ==
    [m |-> [m EXCEPT !.dec.state = st, !.hist.edges = @ \cup {Edge(m, st)}],
     ret |-> "Continue"]

\* ------------------------------------------------------------------------
\* ExplodeBuffer::feed, one operator per arm of the state machine.  An arm
\* returns the machine and either "Continue" (the loop goes on) or the
\* value feed returns: "Ok", "IncompleteInput", "BadDistance", "Panic".
\* An operator named XBits or XSym is the rest of arm X after its call of
\* bits (b) or decode (r).
\* ------------------------------------------------------------------------
\* self.pos >= self.buf.len()
Full(m) == m.decbuf.pos >= Len(m.decbuf.buf)

\* a Start that takes every literal for a raw one
StartBits_AlwaysRaw(b, lit) ==
    IF b.res # "Ok" THEN [m |-> b.m, ret |-> b.res]
    ELSE IF b.val > 0
    THEN Goto(b.m, [tag |-> "Length", decoder |-> decoder(LENGTH)])
    ELSE Goto(b.m, [tag |-> "Literal"])

StartBits(b, lit) ==
    IF b.res # "Ok" THEN [m |-> b.m, ret |-> b.res]
    ELSE IF b.val > 0
    THEN Goto(b.m, [tag |-> "Length", decoder |-> decoder(LENGTH)])
    ELSE IF lit > 0
    THEN Goto(b.m, [tag |-> "LiteralCoded", decoder |-> decoder(LITERAL)])
    ELSE Goto(b.m, [tag |-> "Literal"])

Start(m, lit) == StartBits(bits(m, 1), lit)

LengthSym(r) ==
    IF r.res # "Ok"
    THEN [m |-> [r.m EXCEPT !.dec.state.decoder = r.d], ret |-> r.res]
    ELSE Goto(r.m, [tag |-> "LengthExtra", symbol |-> r.val])

Length(m) == LengthSym(decode(m, m.dec.state.decoder))

\* an end test that also takes 518 for the end code
IsEnd_From518(len) == len >= EndLen - 1

\* len == 519
IsEnd(len) == len = EndLen

LengthExtraBits(b, base) ==
    IF b.res # "Ok" THEN [m |-> b.m, ret |-> b.res]
    ELSE IF IsEnd(base + b.val)
    THEN Goto(b.m, [tag |-> "End"])
    ELSE Goto(b.m, [tag |-> "Distance", len |-> base + b.val,
                    decoder |-> decoder(DISTANCE)])

LengthExtra(m) ==
    LengthExtraBits(bits(m, LEN_EXTRA[m.dec.state.symbol + 1]),
                    LEN_BASE[m.dec.state.symbol + 1])

DistanceSym(r, len) ==
    IF r.res # "Ok"
    THEN [m |-> [r.m EXCEPT !.dec.state.decoder = r.d], ret |-> r.res]
    ELSE Goto(r.m, [tag |-> "DistanceExtra", len |-> len, symbol |-> r.val])

Distance(m) == DistanceSym(decode(m, m.dec.state.decoder), m.dec.state.len)

\* let extra_bits = if len == 2 { 2 } else { dict }
ExtraBits(len, dict) == IF len = 2 THEN 2 ELSE dict

\* dist > window.len()
TooFarBack_AtLeast(dist, wlen) == dist >= wlen

TooFarBack(dist, wlen) == dist > wlen

\* idx: self.parent.window.len() - dist
CopyIdx(wlen, dist) == wlen - dist

\* the check of dist against the window and the move to Copy; ref is the
\* record of this DistanceExtra for hist.refs
DistanceExtraDist(m, ref) ==
    IF TooFarBack(ref.dist, ref.wlen)
    THEN [m |-> [m EXCEPT !.hist.refs = Append(@, [ref EXCEPT !.bad = TRUE])],
          ret |-> "BadDistance"]
    ELSE IF CopyIdx(ref.wlen, ref.dist) < 0
    THEN \* usize underflow of window.len() - dist
         [m |-> [m EXCEPT !.hist.refs = Append(@, ref)], ret |-> "Panic"]
    ELSE Goto([m EXCEPT !.hist.refs = Append(@, ref)],
              [tag |-> "Copy", idx |-> ref.idx, len |-> ref.len])

\* dist = bits(extra_bits) + 1 + (symbol << extra_bits)
Dist(symbol, extra_bits, extra) == (extra + 1) + symbol * Pow2(extra_bits)

DistanceExtraBits(b, len, symbol, extra_bits) ==
    IF b.res # "Ok" THEN [m |-> b.m, ret |-> b.res]
    ELSE DistanceExtraDist(
             b.m,
             [len |-> len, symbol |-> symbol, extra_bits |-> extra_bits,
              extra |-> b.val,
              dist |-> Dist(symbol, extra_bits, b.val),
              wlen |-> Len(b.m.dec.window),
              nout |-> Len(b.m.hist.out),
              bad |-> FALSE,
              idx |-> CopyIdx(Len(b.m.dec.window),
                              Dist(symbol, extra_bits, b.val))])

DistanceExtra(m, dict) ==
    DistanceExtraBits(bits(m, ExtraBits(m.dec.state.len, dict)),
                      m.dec.state.len, m.dec.state.symbol,
                      ExtraBits(m.dec.state.len, dict))

\* an index that runs on past the end of the window
NextIdx_NoWrap(idx, wlen) == idx + 1

\* idx += 1; if idx >= window.len() { idx -= window.len() }
NextIdx(idx, wlen) == IF idx + 1 >= wlen THEN idx + 1 - wlen ELSE idx + 1

\* len -= 1 and the advance of idx, m1 being the machine after the push
CopyAdvance(m1) ==
    Goto(m1, [tag |-> "Copy",
              idx |-> NextIdx(m1.dec.state.idx, Len(m1.dec.window)),
              len |-> m1.dec.state.len - 1])

\* one iteration of the while loop of Copy, with room in the buffer
CopyByte(m) ==
    IF m.dec.state.idx >= Len(m.dec.window)
    THEN \* window[idx] out of bounds
         [m |-> m, ret |-> "Panic"]
    ELSE CopyAdvance(Emit(m, m.dec.window[m.dec.state.idx + 1]))

\* n iterations of the while loop of Copy
RECURSIVE CopyBytes(_, _)
CopyBytes(r, n) ==
    IF r.ret # "Continue" \/ n <= 0 THEN r
    ELSE IF n = 1 THEN CopyByte(r.m)
    ELSE CopyBytes(CopyBytes(r, n \div 2), n - (n \div 2))

\* the bytes the while loop of Copy writes before it stops
CopyCount(m) == Min(m.dec.state.len, Len(m.decbuf.buf) - m.decbuf.pos)

\* an exit that forgets the rest of a copy the buffer had no room for
CopyExit_Drop(r) ==
    IF r.ret # "Continue" THEN r
    ELSE IF r.m.dec.state.len > 0
    THEN [m |-> [r.m EXCEPT !.dec.state = [tag |-> "Start"]], ret |-> "Ok"]
    ELSE Goto(r.m, [tag |-> "Start"])

\* the exit of the while loop: the buffer is full, or len is 0
CopyExit(r) ==
    IF r.ret # "Continue" THEN r
    ELSE IF r.m.dec.state.len > 0
    THEN \* not enough room
         [m |-> r.m, ret |-> "Ok"]
    ELSE Goto(r.m, [tag |-> "Start"])

Copy(m) == CopyExit(CopyBytes([m |-> m, ret |-> "Continue"], CopyCount(m)))

LiteralBits(b) ==
    IF b.res # "Ok" THEN [m |-> b.m, ret |-> b.res]
    ELSE Goto(Emit(b.m, b.val % 256), [tag |-> "Start"])

\* a Literal that gives up one byte before the buffer is full
Literal_Early(m) ==
    IF m.decbuf.pos + 1 >= Len(m.decbuf.buf) THEN [m |-> m, ret |-> "Ok"]
    ELSE LiteralBits(bits(m, 8))

Literal(m) ==
    IF Full(m) THEN [m |-> m, ret |-> "Ok"] ELSE LiteralBits(bits(m, 8))

LiteralCodedSym(r) ==
    IF r.res # "Ok"
    THEN [m |-> [r.m EXCEPT !.dec.state.decoder = r.d], ret |-> r.res]
    ELSE Goto(Emit(r.m, r.val), [tag |-> "Start"])

LiteralCoded(m) ==
    IF Full(m) THEN [m |-> m, ret |-> "Ok"]
    ELSE LiteralCodedSym(decode(m, m.dec.state.decoder))

End(m) == [m |-> m, ret |-> "Ok"]

\* the loop of feed: match self.parent.state
RECURSIVE Loop(_, _, _)

\* r is what the arm returned
LoopArm(r, lit, dict) ==
    IF r.ret = "Continue" THEN Loop(r.m, lit, dict) ELSE r

\* match self.parent.state { ... }
Arm(m, lit, dict) ==
    CASE m.dec.state.tag = "Start" -> Start(m, lit)
      [] m.dec.state.tag = "Length" -> Length(m)
      [] m.dec.state.tag = "LengthExtra" -> LengthExtra(m)
      [] m.dec.state.tag = "Distance" -> Distance(m)
      [] m.dec.state.tag = "DistanceExtra" -> DistanceExtra(m, dict)
      [] m.dec.state.tag = "Copy" -> Copy(m)
      [] m.dec.state.tag = "Literal" -> Literal(m)
      [] m.dec.state.tag = "LiteralCoded" -> LiteralCoded(m)
      [] OTHER -> End(m)

Loop(m, lit, dict) ==
    LoopArm(Arm([m EXCEPT !.hist.arm = m.dec.state.tag], lit, dict),
            lit, dict)

BadLit_Two(lit) == lit > 2

\* lit > 1
BadLit(lit) == lit > 1

BadDict_Three(dict) == dict < 3 \/ dict > 6

\* dict < 4 || dict > 6
BadDict(dict) == dict < 4 \/ dict > 6

\* the first header byte: lit
HeaderLitBits(b) ==
    IF b.res # "Ok" THEN [m |-> b.m, ret |-> b.res]
    ELSE IF BadLit(b.val % 256)
    THEN [m |-> b.m, ret |-> "BadLiteralFlag"]
    ELSE [m |-> [b.m EXCEPT !.dec.lit = Some(b.val % 256)],
          ret |-> "Continue"]

HeaderLit(m) ==
    IF m.dec.lit # None THEN [m |-> m, ret |-> "Continue"]
    ELSE HeaderLitBits(bits(m, 8))

\* the second header byte: dict
HeaderDictBits(b) ==
    IF b.res # "Ok" THEN [m |-> b.m, ret |-> b.res]
    ELSE IF BadDict(b.val % 256)
    THEN [m |-> b.m, ret |-> "BadDictionary"]
    ELSE [m |-> [b.m EXCEPT !.dec.dict = Some(b.val % 256)],
          ret |-> "Continue"]

HeaderDict(r) ==
    IF r.ret # "Continue" \/ r.m.dec.dict # None THEN r
    ELSE HeaderDictBits(bits(r.m, 8))

\* the header is read: run the loop
FeedLoop(r) ==
    IF r.ret # "Continue" THEN r
    ELSE Loop(r.m, r.m.dec.lit[1], r.m.dec.dict[1])

\* the errors the spec calls fatal
Fatal == {"BadLiteralFlag", "BadDictionary", "BadDistance"}

\* the return of feed: hist.fatal keeps the first fatal return
FeedReturn(r) ==
    IF r.ret \in Fatal /\ r.m.hist.fatal = None
    THEN [r EXCEPT !.m.hist.fatal =
                       Some([nout |-> Len(r.m.hist.out),
                             lit |-> r.m.dec.lit, dict |-> r.m.dec.dict])]
    ELSE r

\* ExplodeBuffer::feed(input): the machine after the call and its return
feed(m, input) ==
    FeedReturn(FeedLoop(HeaderDict(HeaderLit(
        [m EXCEPT !.dec.input.next = slot_feed(@, input)]))))

\* ------------------------------------------------------------------------
\* decoder.rs: the older revision of the engine.  Decoder, DecoderInput,
\* DecoderInputState and DecoderState are Explode, ExplodeInput,
\* ExplodeInputState and ExplodeState under other names, decode_into is
\* with_buffer, and DecoderBuffer::feed is ExplodeBuffer::feed line for
\* line (println! calls apart) except for the wrap test of its Copy arm,
\* so the headers and the other arms are the definitions above.
\* ------------------------------------------------------------------------
\* idx += 1; if idx > window.len() { idx -= window.len() }
DecoderBuffer_NextIdx(idx, wlen) ==
    IF idx + 1 > wlen THEN idx + 1 - wlen ELSE idx + 1

\* len -= 1 and the advance of idx, m1 being the machine after the push
DecoderBuffer_CopyAdvance(m1) ==
    Goto(m1, [tag |-> "Copy",
              idx |-> DecoderBuffer_NextIdx(m1.dec.state.idx,
                                            Len(m1.dec.window)),
              len |-> m1.dec.state.len - 1])

\* one iteration of the while loop of Copy, with room in the buffer
DecoderBuffer_CopyByte(m) ==
    IF m.dec.state.idx >= Len(m.dec.window)
    THEN \* window[idx] out of bounds
         [m |-> m, ret |-> "Panic"]
    ELSE DecoderBuffer_CopyAdvance(Emit(m, m.dec.window[m.dec.state.idx + 1]))

\* n iterations of the while loop of Copy
RECURSIVE DecoderBuffer_CopyBytes(_, _)
DecoderBuffer_CopyBytes(r, n) ==
    IF r.ret # "Continue" \/ n <= 0 THEN r
    ELSE IF n = 1 THEN DecoderBuffer_CopyByte(r.m)
    ELSE DecoderBuffer_CopyBytes(DecoderBuffer_CopyBytes(r, n \div 2),
                                 n - (n \div 2))

DecoderBuffer_Copy(m) ==
    CopyExit(DecoderBuffer_CopyBytes([m |-> m, ret |-> "Continue"],
                                     CopyCount(m)))

\* the loop of DecoderBuffer::feed: match self.parent.state
RECURSIVE DecoderBuffer_Loop(_, _, _)

DecoderBuffer_LoopArm(r, lit, dict) ==
    IF r.ret = "Continue" THEN DecoderBuffer_Loop(r.m, lit, dict) ELSE r

DecoderBuffer_Arm(m, lit, dict) ==
    CASE m.dec.state.tag = "Start" -> Start(m, lit)
      [] m.dec.state.tag = "Length" -> Length(m)
      [] m.dec.state.tag = "LengthExtra" -> LengthExtra(m)
      [] m.dec.state.tag = "Distance" -> Distance(m)
      [] m.dec.state.tag = "DistanceExtra" -> DistanceExtra(m, dict)
      [] m.dec.state.tag = "Copy" -> DecoderBuffer_Copy(m)
      [] m.dec.state.tag = "Literal" -> Literal(m)
      [] m.dec.state.tag = "LiteralCoded" -> LiteralCoded(m)
      [] OTHER -> End(m)

DecoderBuffer_Loop(m, lit, dict) ==
    DecoderBuffer_LoopArm(
        DecoderBuffer_Arm([m EXCEPT !.hist.arm = m.dec.state.tag], lit, dict),
        lit, dict)

DecoderBuffer_FeedLoop(r) ==
    IF r.ret # "Continue" THEN r
    ELSE DecoderBuffer_Loop(r.m, r.m.dec.lit[1], r.m.dec.dict[1])

\* DecoderBuffer::feed(input)
DecoderBuffer_feed(m, input) ==
    FeedReturn(DecoderBuffer_FeedLoop(HeaderDict(HeaderLit(
        [m EXCEPT !.dec.input.next = slot_feed(@, input)]))))

\* the state of decode_with_buffer when it enters its loop
dwb_init(buflen) ==
    [m |-> [dec |-> ExplodeNew,
            decbuf |-> with_buffer(ExplodeNew, Fill(0, buflen)),
            hist |-> NoHist],
     i |-> 0, out |-> <<>>, ret |-> NoRet,
     result |-> [kind |-> "Running", out |-> <<>>]]

\* the match of decode_with_buffer on what feed returned (r): Ok(()) with
\* an empty get() means done, otherwise the handle is replaced by
\* dec.decode_into(buf)
dwb_fed(s, r) ==
    CASE r.ret = "Ok" ->
           IF get(r.m.decbuf) = <<>>
           THEN [s EXCEPT !.m = r.m, !.ret = r.ret,
                          !.result = [kind |-> "Ok", out |-> s.out]]
           ELSE [s EXCEPT !.m = [r.m EXCEPT !.decbuf =
                                     with_buffer(r.m.dec, r.m.decbuf.buf)],
                          !.ret = r.ret,
                          !.out = @ \o get(r.m.decbuf)]
      [] r.ret = "IncompleteInput" ->
           [s EXCEPT !.m = r.m, !.ret = r.ret, !.i = @ + 1]
      [] OTHER ->
           [s EXCEPT !.m = r.m, !.ret = r.ret,
                     !.result = [kind |-> r.ret, out |-> <<>>]]

\* one iteration of the while loop of decode_with_buffer, or its exit
dwb_step(data, s) ==
    IF s.i < Len(data)
    THEN dwb_fed(s, DecoderBuffer_feed(s.m, data[s.i + 1]))
    ELSE \* out of input
         [s EXCEPT !.result = [kind |-> "IncompleteInput", out |-> <<>>]]

\* the loop of decode_with_buffer, at most 2^k iterations
RECURSIVE dwb_run(_, _, _)
dwb_run(data, s, k) ==
    IF s.result.kind # "Running" THEN s
    ELSE IF k = 0 THEN dwb_step(data, s)
    ELSE dwb_run(data, dwb_run(data, s, k - 1), k - 1)

\* decode_with_buffer(data, buf) with buf.len() = buflen: the final run
decode_with_buffer(data, buflen) ==
    dwb_run(data, dwb_init(buflen), RunDepth)

\* ------------------------------------------------------------------------
\* explode.rs: explode_with_buffer(data, buf) and explode(data)
\* A run s is the machine, the input index i, the Vec out and the value
\* returned (kind "Running" until the function returns).
\* ------------------------------------------------------------------------
Running == [kind |-> "Running", out |-> <<>>]

\* the state of explode_with_buffer when it enters its loop
ewb_init(buflen) ==
    [m |-> [dec |-> ExplodeNew,
            decbuf |-> with_buffer(ExplodeNew, Fill(0, buflen)),
            hist |-> NoHist],
     i |-> 0, out |-> <<>>, ret |-> NoRet, result |-> Running]

\* the match on what feed returned (r)
ewb_fed(s, r) ==
    CASE r.ret = "Ok" ->
           IF done(r.m.dec)
           THEN [s EXCEPT !.m = r.m, !.ret = r.ret,
                          !.out = @ \o get(r.m.decbuf),
                          !.result = [kind |-> "Ok",
                                      out |-> s.out \o get(r.m.decbuf)]]
           ELSE [s EXCEPT !.m = [r.m EXCEPT !.decbuf = reset(@)],
                          !.ret = r.ret,
                          !.out = @ \o get(r.m.decbuf)]
      [] r.ret = "IncompleteInput" ->
           [s EXCEPT !.m = r.m, !.ret = r.ret, !.i = @ + 1]
      [] OTHER ->
           [s EXCEPT !.m = r.m, !.ret = r.ret,
                     !.result = [kind |-> r.ret, out |-> <<>>]]

\* one iteration of the while loop of explode_with_buffer, or its exit
ewb_step(data, s) ==
    IF s.i < Len(data)
    THEN ewb_fed(s, feed(s.m, data[s.i + 1]))
    ELSE \* out of input
         [s EXCEPT !.result = [kind |-> "IncompleteInput", out |-> <<>>]]

\* the loop of explode_with_buffer, at most 2^k iterations
RECURSIVE ewb_run(_, _, _)
ewb_run(data, s, k) ==
    IF s.result.kind # "Running" THEN s
    ELSE IF k = 0 THEN ewb_step(data, s)
    ELSE ewb_run(data, ewb_run(data, s, k - 1), k - 1)

\* explode_with_buffer(data, buf) with buf.len() = buflen: the final run
explode_with_buffer(data, buflen) ==
    ewb_run(data, ewb_init(buflen), RunDepth)

\* explode(data)
explode(data) == explode_with_buffer(data, ExplodeBuf)

\* every byte written so far by the run: the drained ones and the ones
\* still in the buffer
Produced(s) ==
    IF s.result.kind = "Ok" THEN s.out ELSE s.out \o get(s.m.decbuf)

\* ------------------------------------------------------------------------
\* The inputs of the model
\* ------------------------------------------------------------------------
\* the stream of the doc tests: "AIAIAIAIAIAIA"
Example == <<0, 4, 130, 36, 37, 143, 128, 127>>
ExampleOut == <<65, 73, 65, 73, 65, 73, 65, 73, 65, 73, 65, 73, 65>>

Prefixes(s) == {SubSeq(s, 1, n) : n \in 0..Len(s)}

SeqsUpTo(S, n) == UNION {[1..k -> S] : k \in 0..n}

\* first header bytes: raw literals, coded literals, invalid
HdrLit == {0, 1, 2}
\* second header bytes: 4, 5, 6 are valid
HdrDict == {3, 4, 5, 6, 7}
\* token bytes: 0x00, 0x3b, 0x76, 0x82, 0xde, 0xff
BodyBytes == {0, 59, 118, 130, 222, 255}

\* the streams of the enumeration: every header, and every token part over
\* BodyBytes after every valid header
Enumerated ==
    {<<>>} \cup {<<l>> : l \in HdrLit}
    \cup {<<l, d>> : l \in HdrLit, d \in HdrDict}
    \cup {<<l, d>> \o b : l \in {0, 1}, d \in {4, 5, 6},
                          b \in SeqsUpTo(BodyBytes, MaxBody)}

\* the doc-test stream, cut short and with a trailing byte
Named == Prefixes(Example) \cup {Example \o <<42>>}

\* streams that go on after a fatal error: a bad literal flag, a bad
\* dictionary size and a bad distance (the raw literal 0x00, a reference
\* of length 2 whose extra bits 01 give distance 3, then the bits 00),
\* each followed by bytes that decode
Resumed == {<<2, 0, 0, 4, 130, 0>>, <<0, 3, 0, 4, 130, 0>>, <<0, 4, 0, 118, 1>>}

\* a stream that fills the window: the raw literals 'A', 'B', then
\* WindowCap / 2 back-references of length 2 at distance 2 (bit pattern
\* 1 101 11 10, eight bits each, two bits into the byte)
LongStream == <<0, 4, 130, 8>> \o Fill(237, WindowCap \div 2) \o <<1>>

\* the same stream with a last back-reference of length 2 at distance 1
\* (extra bits 00), made when the window is full
EdgeStream == <<0, 4, 130, 8>> \o Fill(237, WindowCap \div 2) \o <<0>>

\* ------------------------------------------------------------------------
\* reader.rs: ExplodeReader over an in-memory source (a Cursor over data)
\* A reader rd is the number of bytes read from the inner source (inner),
\* the leftover byte, and the machine of its Explode.
\* ------------------------------------------------------------------------
ReaderNew ==
    [inner |-> 0, leftover |-> None,
     m |-> [dec |-> ExplodeNew,
            decbuf |-> with_buffer(ExplodeNew, <<>>),
            hist |-> NoHist],
     ret |-> NoRet,
     res |-> [kind |-> "Looping", n |-> 0]]

\* the match on what feed returned (r) for byte
rd_fed(rd, r, byte) ==
    CASE r.ret = "Ok" ->
           [rd EXCEPT !.m = r.m, !.ret = r.ret,
                      !.leftover = Some(byte),
                      !.res = [kind |-> "Ok", n |-> r.m.decbuf.pos]]
      [] r.ret = "IncompleteInput" ->
           [rd EXCEPT !.m = r.m, !.ret = r.ret]
      [] r.ret = "Panic" ->
           [rd EXCEPT !.m = r.m, !.ret = r.ret,
                      !.res = [kind |-> "Panic", n |-> 0]]
      [] OTHER ->
           [rd EXCEPT !.m = r.m, !.ret = r.ret,
                      !.res = [kind |-> "InvalidData", n |-> 0]]

\* one iteration of the loop of read, or its exit
rd_step(data, rd) ==
    IF rd.leftover # None
    THEN rd_fed([rd EXCEPT !.leftover = None],
                feed(rd.m, rd.leftover[1]), rd.leftover[1])
    ELSE IF rd.inner < Len(data)
    THEN rd_fed([rd EXCEPT !.inner = @ + 1],
                feed(rd.m, data[rd.inner + 1]), data[rd.inner + 1])
    ELSE \* inner.read returned 0: break
         [rd EXCEPT !.res = [kind |-> "UnexpectedEof", n |-> 0]]

\* the loop of read, at most 2^k iterations
RECURSIVE rd_run(_, _, _)
rd_run(data, rd, k) ==
    IF rd.res.kind # "Looping" THEN rd
    ELSE IF k = 0 THEN rd_step(data, rd)
    ELSE rd_run(data, rd_run(data, rd, k - 1), k - 1)

\* ExplodeReader::read(buf) with buf.len() = n: the reader after the call;
\* res is the value returned and m.decbuf the handle the call worked on
read(data, rd, n) ==
    IF done(rd.m.dec)
    THEN [rd EXCEPT !.res = [kind |-> "Ok", n |-> 0]]
    ELSE rd_run(data,
                [rd EXCEPT !.m.decbuf = with_buffer(rd.m.dec, Fill(0, n)),
                           !.res = [kind |-> "Looping", n |-> 0]],
                RunDepth)

\* ------------------------------------------------------------------------
\* State
\* ------------------------------------------------------------------------
VARIABLES
    data,       \* the compressed input
    dec,        \* the Explode
    decbuf,     \* the ExplodeBuffer handle: buf and pos
    hist,       \* history of the engine: taken, nout, refs
    ret,        \* what the last feed returned
    i,          \* explode_with_buffer: index of the byte being fed
    out,        \* explode_with_buffer: the Vec out
    result,     \* explode_with_buffer: the value returned
    inner,      \* ExplodeReader: bytes read from the inner source
    leftover,   \* ExplodeReader: the leftover byte
    rret,       \* ExplodeReader: what the last read returned
    ours,       \* the bytes the caller of read has collected
    plan,       \* the caller of read: the buffer lengths it may pass to
                \* its next calls (the last set stands for all later calls)
    input,      \* codes.rs: the list a table is built from, kind "lengths"
                \* or "packed"
    checked,    \* codes.rs: the build has overflow checks
    table,      \* codes.rs: what the constructor returned
    cursor,     \* codes.rs: a Decoder on the table
    fed,        \* the bits fed to cursor since its creation
    results,    \* the DecodeResult of each of these bits
    older       \* decoder.rs: what decode_with_buffer returned and wrote

vars == <<data, dec, decbuf, hist, ret, i, out, result,
          inner, leftover, rret, ours, plan,
          input, checked, table, cursor, fed, results, older>>

ewbVars == <<i, out, result>>
readerVars == <<inner, leftover, rret, ours, plan>>
codesVars == <<input, checked, table, cursor, fed, results>>

Unbuilt == [kind |-> "Unbuilt", t |-> <<>>]

\* decode_with_buffer has not been called
NotRun == [kind |-> "Running", out |-> <<>>, produced |-> <<>>]

\* no table is being built
NoCodes ==
    /\ input = [kind |-> "lengths", v |-> <<>>]
    /\ checked = TRUE
    /\ table = Unbuilt
    /\ cursor = decoder(LENGTH)
    /\ fed = <<>>
    /\ results = <<>>

\* ------------------------------------------------------------------------
\* Spec: explode_with_buffer(data, buf), one action per feed call
\* ------------------------------------------------------------------------
Init ==
    /\ \/ data \in Enumerated /\ \E n \in 1..MaxBuf :
                                    decbuf = with_buffer(ExplodeNew, Fill(0, n))
       \/ data \in Named /\ \E n \in {1, ExplodeBuf} :
                                    decbuf = with_buffer(ExplodeNew, Fill(0, n))
       \/ data = LongStream
          /\ decbuf = with_buffer(ExplodeNew, Fill(0, ExplodeBuf))
    /\ dec = ExplodeNew
    /\ hist = NoHist
    /\ ret = NoRet
    /\ i = 0 /\ out = <<>> /\ result = Running
    /\ inner = 0 /\ leftover = None /\ ours = <<>> /\ plan = <<>>
    /\ rret = [kind |-> "Looping", n |-> 0]
    /\ NoCodes
    /\ older = NotRun

\* the run of explode_with_buffer held in the variables
Cur ==
    [m |-> [dec |-> dec, decbuf |-> decbuf, hist |-> hist],
     i |-> i, out |-> out, ret |-> ret, result |-> result]

\* the variables become the run s, provided feed returned one of rets
Becomes(s, rets) ==
    /\ s.ret \in rets
    /\ dec' = s.m.dec
    /\ decbuf' = s.m.decbuf
    /\ hist' = s.m.hist
    /\ ret' = s.ret
    /\ i' = s.i
    /\ out' = s.out
    /\ result' = s.result
    /\ UNCHANGED <<data, readerVars, codesVars, older>>

Feeding == result = Running /\ i < Len(data)

Rets == {NoRet, "Ok", "IncompleteInput", "BadLiteralFlag", "BadDictionary",
         "BadDistance", "Panic"}

\* feed returned Ok(()): the buffer is full or decoding is done
FeedOk == Feeding /\ Becomes(ewb_step(data, Cur), {"Ok"})

\* feed returned Err(IncompleteInput): advance the input index
FeedIncomplete == Feeding /\ Becomes(ewb_step(data, Cur), {"IncompleteInput"})

\* feed returned another error, which explode_with_buffer returns
FeedErr ==
    Feeding /\ Becomes(ewb_step(data, Cur),
                       {"BadLiteralFlag", "BadDictionary", "BadDistance"})

\* feed panicked
FeedPanic == Feeding /\ Becomes(ewb_step(data, Cur), {"Panic"})

\* out of input
OutOfInput ==
    result = Running /\ i >= Len(data) /\ Becomes(ewb_step(data, Cur), Rets)

Next == FeedOk \/ FeedIncomplete \/ FeedErr \/ FeedPanic \/ OutOfInput

Spec == Init /\ [][Next]_vars

\* SpecAnyBuffer: explode_with_buffer(data, buf) with a buffer of any
\* length, the empty one included
InitAnyBuffer ==
    /\ data \in Enumerated
    /\ \E n \in 0..MaxBuf : decbuf = with_buffer(ExplodeNew, Fill(0, n))
    /\ dec = ExplodeNew
    /\ hist = NoHist
    /\ ret = NoRet
    /\ i = 0 /\ out = <<>> /\ result = Running
    /\ inner = 0 /\ leftover = None /\ ours = <<>> /\ plan = <<>>
    /\ rret = [kind |-> "Looping", n |-> 0]
    /\ NoCodes
    /\ older = NotRun

SpecAnyBuffer == InitAnyBuffer /\ [][Next]_vars

TypeOK ==
    /\ dec.state.tag \in {"Start", "Length", "LengthExtra", "Distance",
                          "DistanceExtra", "Copy", "Literal", "LiteralCoded",
                          "End"}
    /\ decbuf.pos \in 0..Len(decbuf.buf)

\* ------------------------------------------------------------------------
\* SpecReader: an ExplodeReader over a Cursor on data, one action per read
\* ------------------------------------------------------------------------
InitReader ==
    /\ \/ data \in Enumerated \cup Named \cup Resumed /\ plan = <<1..MaxRead>>
       \/ data = LongStream /\ plan = <<{WindowCap}, 1..MaxRead>>
    /\ dec = ExplodeNew
    /\ decbuf = with_buffer(ExplodeNew, <<>>)
    /\ hist = NoHist
    /\ ret = NoRet
    /\ i = 0 /\ out = <<>> /\ result = Running
    /\ inner = 0 /\ leftover = None /\ ours = <<>>
    /\ rret = [kind |-> "Looping", n |-> 0]
    /\ NoCodes
    /\ older = NotRun

\* the reader held in the variables
CurReader ==
    [inner |-> inner, leftover |-> leftover,
     m |-> [dec |-> dec, decbuf |-> decbuf, hist |-> hist],
     ret |-> ret, res |-> rret]

\* the variables become the reader rd, whose read returned one of kinds;
\* on Ok(n) the caller keeps the n bytes of its buffer
Returns(rd, kinds) ==
    /\ rd.res.kind \in kinds
    /\ inner' = rd.inner
    /\ leftover' = rd.leftover
    /\ dec' = rd.m.dec
    /\ decbuf' = rd.m.decbuf
    /\ hist' = rd.m.hist
    /\ ret' = rd.ret
    /\ rret' = rd.res
    /\ ours' = IF rd.res.kind = "Ok"
               THEN ours \o SubSeq(rd.m.decbuf.buf, 1, rd.res.n)
               ELSE ours
    /\ plan' = IF Len(plan) > 1 THEN Tail(plan) ELSE plan
    /\ UNCHANGED <<data, ewbVars, codesVars, older>>

Alive == rret.kind # "Panic"

\* read returned Ok(n)
ReadOk ==
    Alive /\ \E n \in Head(plan) : Returns(read(data, CurReader, n), {"Ok"})

\* read returned an error: UnexpectedEof or InvalidData
ReadErr ==
    Alive /\ \E n \in Head(plan) :
                Returns(read(data, CurReader, n),
                        {"UnexpectedEof", "InvalidData"})

\* read panicked
ReadPanic ==
    Alive /\ \E n \in Head(plan) : Returns(read(data, CurReader, n), {"Panic"})

NextReader == ReadOk \/ ReadErr \/ ReadPanic

SpecReader == InitReader /\ [][NextReader]_vars

\* ------------------------------------------------------------------------
\* SpecCodes: a table is built from a list, then a cursor on it is fed
\* bits, one action per constructor call and per Decoder::feed call
\* ------------------------------------------------------------------------
\* the length lists of the enumeration
SmallLengths == SeqsUpTo(0..MaxCodeLen, MaxSyms)

\* the lists of the tests of codes.rs, a single code of 8 bits, and lists
\* of 256 symbols
NamedLengths ==
    {<<2, 1, 3, 3>>, <<1, 2, 2, 3>>, <<1, 3>>, <<8>>,
     Fill(0, MaxSymbols), Fill(1, MaxSymbols), Fill(8, MaxSymbols)}

\* packed bytes: one or two symbols of each length
PackedBytes == {16 * h + l : h \in 0..1, l \in 0..MaxCodeLen}

PackedLists == SeqsUpTo(PackedBytes, MaxPacked) \cup {<<2, 1, 19>>}

InitCodes ==
    /\ \/ /\ input \in [kind : {"lengths"}, v : SmallLengths]
                   \cup [kind : {"packed"}, v : PackedLists]
          /\ checked = TRUE
       \/ /\ input \in [kind : {"lengths"}, v : NamedLengths]
          /\ checked \in BOOLEAN
    /\ table = Unbuilt
    /\ cursor = decoder(LENGTH)
    /\ fed = <<>>
    /\ results = <<>>
    /\ data = <<>>
    /\ dec = ExplodeNew
    /\ decbuf = with_buffer(ExplodeNew, <<>>)
    /\ hist = NoHist
    /\ ret = NoRet
    /\ i = 0 /\ out = <<>> /\ result = Running
    /\ inner = 0 /\ leftover = None /\ ours = <<>> /\ plan = <<>>
    /\ rret = [kind |-> "Looping", n |-> 0]
    /\ older = NotRun

\* the constructor call on input
Construct ==
    IF input.kind = "packed"
    THEN new_from_packed_lengths(input.v, checked)
    ELSE new_from_lengths(input.v, checked)

\* the constructor returned c, of one of kinds; a cursor is made on a table
Constructed(c, kinds) ==
    /\ c.kind \in kinds
    /\ table' = c
    /\ cursor' = IF c.kind = "Some" THEN decoder(c.t) ELSE cursor
    /\ UNCHANGED <<input, checked, fed, results,
                   data, dec, decbuf, hist, ret, ewbVars, readerVars, older>>

\* the constructor returned Some(table)
BuildSome == table = Unbuilt /\ Constructed(Construct, {"Some"})

\* the constructor returned None
BuildNone == table = Unbuilt /\ Constructed(Construct, {"None"})

\* the constructor panicked
BuildPanic == table = Unbuilt /\ Constructed(Construct, {"Panic"})

\* the cursor returned r for bit
CursorFed(r, bit) ==
    /\ cursor' = r.d
    /\ fed' = Append(fed, bit)
    /\ results' = Append(results, [res |-> r.res, v |-> r.v])
    /\ UNCHANGED <<input, checked, table,
                   data, dec, decbuf, hist, ret, ewbVars, readerVars, older>>

\* Decoder::feed(bit) on a cursor that has not returned a symbol
CursorFeed ==
    /\ table.kind = "Some"
    /\ Len(fed) < MaxFeed
    /\ \A k \in 1..Len(results) : results[k].res \in {"Incomplete", "Invalid"}
    /\ \E bit \in BOOLEAN : CursorFed(DecoderFeed(cursor, bit), bit)

NextCodes == BuildSome \/ BuildNone \/ BuildPanic \/ CursorFeed

SpecCodes == InitCodes /\ [][NextCodes]_vars

\* ------------------------------------------------------------------------
\* SpecCursor: a cursor on a table that new_from_lengths returned or on a
\* table of tables.rs is fed any bits, also after it returned a symbol or
\* Invalid, one action per Decoder::feed call.  fed and results hold the
\* last bit and its DecodeResult only.
\* ------------------------------------------------------------------------
BuiltIn == {LITERAL, LENGTH, DISTANCE}

InitCursor ==
    /\ \/ /\ input \in [kind : {"lengths"}, v : SmallLengths \cup NamedLengths]
          /\ checked \in BOOLEAN
          /\ table = new_from_lengths(input.v, checked)
          /\ table.kind = "Some"
       \/ /\ input = [kind |-> "tables", v |-> <<>>]
          /\ checked = TRUE
          /\ table \in [kind : {"Some"}, t : BuiltIn]
    /\ cursor = decoder(table.t)
    /\ fed = <<>>
    /\ results = <<>>
    /\ data = <<>>
    /\ dec = ExplodeNew
    /\ decbuf = with_buffer(ExplodeNew, <<>>)
    /\ hist = NoHist
    /\ ret = NoRet
    /\ i = 0 /\ out = <<>> /\ result = Running
    /\ inner = 0 /\ leftover = None /\ ours = <<>> /\ plan = <<>>
    /\ rret = [kind |-> "Looping", n |-> 0]
    /\ older = NotRun

\* the cursor returned r for bit
CursorStepped(r, bit) ==
    /\ cursor' = r.d
    /\ fed' = <<bit>>
    /\ results' = <<[res |-> r.res, v |-> r.v]>>
    /\ UNCHANGED <<input, checked, table,
                   data, dec, decbuf, hist, ret, ewbVars, readerVars, older>>

\* Decoder::feed(bit) on a cursor that has not panicked
CursorStep ==
    /\ cursor.bits < cursor.codebook.max_len + MaxOver
    /\ \A k \in 1..Len(results) : results[k].res # "Panic"
    /\ \E bit \in BOOLEAN : CursorStepped(DecoderFeed(cursor, bit), bit)

NextCursor == CursorStep

SpecCursor == InitCursor /\ [][NextCursor]_vars

\* ------------------------------------------------------------------------
\* SpecRevisions: explode_with_buffer and decode_with_buffer are applied to
\* the same data and a buffer of the same length (that of decbuf), one
\* action per call.  out is every byte the call of explode_with_buffer
\* wrote, older.produced every byte that of decode_with_buffer wrote.
\* ------------------------------------------------------------------------
InitRevisions ==
    /\ \/ data \in Enumerated /\ \E n \in 1..MaxBuf :
                                    decbuf = with_buffer(ExplodeNew, Fill(0, n))
       \/ data \in Named /\ \E n \in {1, ExplodeBuf} :
                                    decbuf = with_buffer(ExplodeNew, Fill(0, n))
       \/ data \in {LongStream, EdgeStream}
          /\ decbuf = with_buffer(ExplodeNew, Fill(0, ExplodeBuf))
    /\ dec = ExplodeNew
    /\ hist = NoHist
    /\ ret = NoRet
    /\ i = 0 /\ out = <<>> /\ result = Running
    /\ inner = 0 /\ leftover = None /\ ours = <<>> /\ plan = <<>>
    /\ rret = [kind |-> "Looping", n |-> 0]
    /\ NoCodes
    /\ older = NotRun

\* explode_with_buffer(data, buf) ended as the run s
Exploded(s) ==
    /\ result' = s.result
    /\ out' = Produced(s)
    /\ UNCHANGED <<data, dec, decbuf, hist, ret, i, readerVars, codesVars, older>>

RunExplode ==
    result = Running /\ Exploded(explode_with_buffer(data, Len(decbuf.buf)))

\* decode_with_buffer(data, buf) ended as the run s
Decoded(s) ==
    /\ older' = [kind |-> s.result.kind, out |-> s.result.out,
                 produced |-> Produced(s)]
    /\ UNCHANGED <<data, dec, decbuf, hist, ret, ewbVars, readerVars, codesVars>>

RunDecode ==
    older = NotRun /\ Decoded(decode_with_buffer(data, Len(decbuf.buf)))

NextRevisions == RunExplode \/ RunDecode

SpecRevisions == InitRevisions /\ [][NextRevisions]_vars

\* ------------------------------------------------------------------------
\* SpecLength: the LengthExtra arm of feed as a function of the symbol it
\* holds and of the input that follows, applied once to every symbol of
\* LENGTH and every next byte (or none).  Runs from Explode::new reach the
\* arm with the symbols 0, 1 and 2 only.
\* ------------------------------------------------------------------------
\* an engine in LengthExtra { symbol } with an empty bit buffer
AtLengthExtra(symbol, next) ==
    [ExplodeNew EXCEPT !.state = [tag |-> "LengthExtra", symbol |-> symbol],
                       !.lit = Some(0),
                       !.dict = Some(4),
                       !.input.next = next]

InitLength ==
    /\ \E symbol \in 0..(Len(LEN_BASE) - 1) :
          \/ \E byte \in 0..(U8 - 1) :
                dec = AtLengthExtra(symbol, Available(byte))
          \/ dec = AtLengthExtra(symbol, Taken)
    /\ data = <<>>
    /\ decbuf = with_buffer(ExplodeNew, <<0>>)
    /\ hist = NoHist
    /\ ret = NoRet
    /\ i = 0 /\ out = <<>> /\ result = Running
    /\ inner = 0 /\ leftover = None /\ ours = <<>> /\ plan = <<>>
    /\ rret = [kind |-> "Looping", n |-> 0]
    /\ NoCodes
    /\ older = NotRun

\* the arm returned r, leaving the engine at one of tags
Stepped(r, tags) ==
    /\ r.m.dec.state.tag \in tags
    /\ dec' = r.m.dec
    /\ decbuf' = r.m.decbuf
    /\ hist' = r.m.hist
    /\ ret' = r.ret
    /\ UNCHANGED <<data, ewbVars, readerVars, codesVars, older>>

\* len == 519: the end code
LengthExtraEnd == ret = NoRet /\ Stepped(LengthExtra(Cur.m), {"End"})

\* any other len: the distance is next
LengthExtraDistance ==
    ret = NoRet /\ Stepped(LengthExtra(Cur.m), {"Distance"})

\* bits returned Err(IncompleteInput)
LengthExtraStarved ==
    ret = NoRet /\ Stepped(LengthExtra(Cur.m), {"LengthExtra"})

NextLength == LengthExtraEnd \/ LengthExtraDistance \/ LengthExtraStarved

SpecLength == InitLength /\ [][NextLength]_vars

\* ------------------------------------------------------------------------
\* SpecBits: the ExplodeInput of an engine under any caller of its kind:
\* a feed call latches a byte into the slot and makes bits calls, of any
\* n in 0..8, until one fails or the feed returns for another reason.
\* ret is "Continue" inside a feed call.  One action per bits call.
\* ------------------------------------------------------------------------
\* the bytes offered: 0x5a, 0xa5, 0xff
BitBytes == {90, 165, 255}

\* the bytes k and k + 1 (from 0) of taken as one number, the byte k lowest
TwoBytes(taken, k) ==
    taken[k + 1] + (IF k + 2 <= Len(taken) THEN U8 * taken[k + 2] ELSE 0)

\* the n <= 8 bits from bit p on, the earliest one least significant
StreamBits(taken, p, n) ==
    IF n = 0 THEN 0
    ELSE (TwoBytes(taken, p \div 8) \div Pow2(p % 8)) % Pow2(n)

\* the record of a bits(n) call that returned Ok(val) and the machine m
Read(m, n, val) ==
    [n |-> n,
     val |-> val,
     want |-> StreamBits(m.hist.taken, m.hist.consumed, n),
     took |-> Len(m.hist.taken) - m.hist.seen,
     bitcount |-> m.dec.input.bitcount,
     spill |-> m.dec.input.bitbuf >= Pow2(m.dec.input.bitcount)]

\* the history after that call
Noted(m, n, val) ==
    [m.hist EXCEPT !.reads = {Read(m, n, val)},
                   !.consumed = @ + n,
                   !.seen = Len(m.hist.taken),
                   !.left = [bitbuf |-> m.dec.input.bitbuf,
                             bitcount |-> m.dec.input.bitcount]]

InitBits ==
    /\ data \in SeqsUpTo(BitBytes, MaxTaken)
    /\ dec = ExplodeNew
    /\ decbuf = with_buffer(ExplodeNew, <<0>>)
    /\ hist = NoHist
    /\ ret = NoRet
    /\ i = 0 /\ out = <<>> /\ result = Running
    /\ inner = 0 /\ leftover = None /\ ours = <<>> /\ plan = <<>>
    /\ rret = [kind |-> "Looping", n |-> 0]
    /\ NoCodes
    /\ older = NotRun

\* feed(input) is called: self.parent.input.next.feed(input)
InputFeed ==
    /\ ret \notin {"Continue", "Panic"}
    /\ i < Len(data)
    /\ dec' = [dec EXCEPT !.input.next = slot_feed(@, data[i + 1])]
    /\ hist' = [hist EXCEPT !.mark = Len(hist.taken)]
    /\ ret' = "Continue"
    /\ UNCHANGED <<data, decbuf, ewbVars, readerVars, codesVars, older>>

\* the bits(n) call returned b, of one of kinds; a failure is returned by
\* feed, and on Err(IncompleteInput) the caller goes to its next byte
BitsReturned(b, n, kinds) ==
    /\ b.res \in kinds
    /\ dec' = b.m.dec
    /\ hist' = IF b.res = "Ok" THEN Noted(b.m, n, b.val) ELSE b.m.hist
    /\ ret' = IF b.res = "Ok" THEN ret ELSE b.res
    /\ i' = IF b.res = "IncompleteInput" THEN i + 1 ELSE i
    /\ UNCHANGED <<data, decbuf, out, result, readerVars, codesVars, older>>

\* bits(n) returned Ok(val)
BitsOk ==
    ret = "Continue" /\ \E n \in 0..8 : BitsReturned(bits(Cur.m, n), n, {"Ok"})

\* bits(n) failed
BitsFailed ==
    ret = "Continue"
    /\ \E n \in 0..8 :
          BitsReturned(bits(Cur.m, n), n, {"IncompleteInput", "Panic"})

\* feed returned without a failed bits call: Ok(()) on a full buffer, after
\* which the caller feeds the same byte again, or a fatal error, after
\* which the reader feeds its next byte
InputReturn ==
    /\ ret = "Continue"
    /\ ret' = "Ok"
    /\ \E adv \in {0, 1} : i' = i + adv
    /\ UNCHANGED <<data, dec, decbuf, hist, out, result, readerVars, codesVars, older>>

NextBits == InputFeed \/ BitsOk \/ BitsFailed \/ InputReturn

SpecBits == InitBits /\ [][NextBits]_vars

\* ------------------------------------------------------------------------
\* SpecCalls: one engine under any caller: feed with any byte, reset and
\* with_buffer with a buffer of any length, in any order.  data is the
\* byte of the last feed call, i the number of feed calls made.
\* ------------------------------------------------------------------------
\* the bytes passed: the header values 0, 1, 4, a bad header value and the
\* tokens 0x3b and 0x82
CallBytes == {0, 1, 4, 7, 59, 130}

InitCalls ==
    /\ data = <<>>
    /\ dec = ExplodeNew
    /\ \E n \in 0..MaxBuf : decbuf = with_buffer(ExplodeNew, Fill(0, n))
    /\ hist = NoHist
    /\ ret = NoRet
    /\ i = 0 /\ out = <<>> /\ result = Running
    /\ inner = 0 /\ leftover = None /\ ours = <<>> /\ plan = <<>>
    /\ rret = [kind |-> "Looping", n |-> 0]
    /\ NoCodes
    /\ older = NotRun

\* the engine can be called: it has not panicked
Usable == ret # "Panic"

\* feed(byte) returned r
Fed(r, byte) ==
    /\ dec' = r.m.dec
    /\ decbuf' = r.m.decbuf
    /\ hist' = r.m.hist
    /\ ret' = r.ret
    /\ data' = <<byte>>
    /\ i' = i + 1
    /\ UNCHANGED <<out, result, readerVars, codesVars, older>>

\* decbuf.feed(byte)
CallFeed ==
    Usable /\ i < MaxCalls /\ \E byte \in CallBytes : Fed(feed(Cur.m, byte), byte)

\* decbuf.reset()
CallReset ==
    /\ Usable
    /\ decbuf' = reset(decbuf)
    /\ UNCHANGED <<data, dec, hist, ret, ewbVars, readerVars, codesVars, older>>

\* the handle is dropped and dec.with_buffer(buf) makes a new one
CallWithBuffer ==
    /\ Usable
    /\ \E n \in 0..MaxBuf : decbuf' = with_buffer(dec, Fill(0, n))
    /\ UNCHANGED <<data, dec, hist, ret, ewbVars, readerVars, codesVars, older>>

NextCalls == CallFeed \/ CallReset \/ CallWithBuffer

SpecCalls == InitCalls /\ [][NextCalls]_vars

\* ------------------------------------------------------------------------
\* Properties
\* ------------------------------------------------------------------------
Finished == result.kind # "Running"

Last(s) == s[Len(s)]

\* C1: explode, and explode_with_buffer with a one-byte buffer, decode
\* the doc-test stream to Ok("AIAIAIAIAIAIA").
C1_ExampleDecodes ==
    (data = Example /\ Finished)
        => result = [kind |-> "Ok", out |-> ExampleOut]

\* the reader has stopped delivering bytes
ReaderStopped ==
    \/ rret.kind \in {"UnexpectedEof", "InvalidData", "Panic"}
    \/ rret = [kind |-> "Ok", n |-> 0]

\* C2: over a valid stream the reads of an ExplodeReader deliver, for any
\* buffer sizes, exactly the bytes explode returns, and then Ok(0).
C2_ReaderMatchesExplode ==
    (data = Example /\ ReaderStopped)
        => /\ rret = [kind |-> "Ok", n |-> 0]
           /\ explode(data).result = [kind |-> "Ok", out |-> ours]

\* the buffer lengths compared
BufLens == (1..MaxBuf) \cup {ExplodeBuf}

SameOutcome(s, t) == s.result = t.result /\ Produced(s) = Produced(t)

\* the buffer lengths a finished run is compared with.  An enumerated stream
\* is run in every buffer of 1..MaxBuf bytes, so comparing each of those runs
\* with the run in the 4096-byte buffer compares them all with one another;
\* the named streams and the window-filling stream are run in fewer buffers
\* and are compared with every length.
Compared == IF data \in Enumerated THEN {ExplodeBuf} ELSE BufLens

\* C3: explode_with_buffer returns the same result, and has written the
\* same bytes, whatever the length (at least 1) of the buffer it works in.
C3_BufferIndependent ==
    Finished
        => \A n \in Compared : SameOutcome(explode_with_buffer(data, n), Cur)

\* a finished run in a one-byte buffer that completed a back-reference:
\* its Copy was suspended on the full buffer and resumed
C3_ResumedCopy ==
    /\ Finished
    /\ Len(decbuf.buf) = 1
    /\ \E k \in 1..Len(hist.refs) :
           /\ ~hist.refs[k].bad
           /\ Len(hist.out) >= hist.refs[k].nout + hist.refs[k].len

\* C4: every proper prefix of a valid stream (cut before the end sentinel
\* is complete) gives Err(IncompleteInput).
C4_TruncationIncomplete ==
    (data \in Prefixes(Example) /\ Len(data) < Len(Example) /\ Finished)
        => result.kind = "IncompleteInput"

\* C5: bytes after the end sentinel are ignored: the stream followed by
\* one more byte gives Ok with the bytes of the stream alone, and the
\* added byte is never fed.
C5_TrailingIgnored ==
    (data = Example \o <<42>> /\ Finished)
        => /\ result.kind = "Ok"
           /\ result.out = explode(Example).result.out
           /\ i < Len(Example)

\* C6: the bytes a back-reference of length len and distance dist writes
\* at output offsets n .. n+len-1 satisfy out[n+k] = out[n+k-dist], for
\* overlapping references, suspended copies and a window at capacity.
C6_CopyMatchesSource ==
    \A k \in 1..Len(hist.refs) :
        ~hist.refs[k].bad
            => \A j \in 1..hist.refs[k].len :
                   hist.refs[k].nout + j <= Len(hist.out)
                       => hist.out[hist.refs[k].nout + j]
                          = hist.out[hist.refs[k].nout + j - hist.refs[k].dist]

\* C7: the bytes the engine takes are the bytes of the input, each once
\* and in order; the byte being fed has been taken exactly when the slot
\* is Taken, and IncompleteInput is returned with the slot back to Waiting.
C7_EachByteOnce ==
    /\ Len(hist.taken) <= Len(data)
    /\ hist.taken = SubSeq(data, 1, Len(hist.taken))
    /\ Len(hist.taken) = i + (IF dec.input.next.tag = "Taken" THEN 1 ELSE 0)
    /\ ret = "IncompleteInput" => dec.input.next = Waiting
    /\ (Finished /\ result.kind = "IncompleteInput") => hist.taken = data

\* a run that returned Ok on a full buffer, was resumed with the same
\* byte and asked for more input afterwards
C7_ResumedThenIncomplete ==
    /\ ret = "IncompleteInput"
    /\ Len(out) >= 2
    /\ Len(hist.taken) >= 4

\* C8: a first byte above 1 gives BadLiteralFlag (and nothing else does):
\* no output, state Start, window empty, lit and dict unset.
C8_BadLiteralFlag ==
    /\ (Len(data) >= 1 /\ data[1] > 1 /\ ret # NoRet)
           => /\ ret = "BadLiteralFlag"
              /\ result = [kind |-> "BadLiteralFlag", out |-> <<>>]
              /\ hist.out = <<>> /\ out = <<>> /\ decbuf.pos = 0
              /\ dec.state = [tag |-> "Start"]
              /\ dec.window = <<>>
              /\ dec.lit = None /\ dec.dict = None
    /\ ret = "BadLiteralFlag" => data[1] > 1
    /\ (ret \notin {NoRet, "BadLiteralFlag"}) => dec.lit = Some(data[1])

C8_Rejected == ret = "BadLiteralFlag" /\ result.kind = "BadLiteralFlag"

\* the second header byte has been taken and examined
DictSeen == Len(hist.taken) >= 2 /\ data[1] <= 1

\* C9: after a valid first byte, a second byte outside 4..6 gives
\* BadDictionary with dict unset, state Start and no output; 4, 5 and 6
\* give no dictionary error and set dict.
C9_BadDictionary ==
    /\ (DictSeen /\ data[2] \notin {4, 5, 6})
           => /\ ret = "BadDictionary"
              /\ result = [kind |-> "BadDictionary", out |-> <<>>]
              /\ dec.dict = None
              /\ dec.lit = Some(data[1])
              /\ dec.state = [tag |-> "Start"]
              /\ hist.out = <<>> /\ out = <<>> /\ dec.window = <<>>
    /\ (DictSeen /\ data[2] \in {4, 5, 6})
           => ret # "BadDictionary" /\ dec.dict = Some(data[2])
    /\ ret = "BadDictionary" => DictSeen /\ data[2] \notin {4, 5, 6}

C9_Rejected == ret = "BadDictionary" /\ result.kind = "BadDictionary"

\* C10: DistanceExtra computes dist = (symbol << extra_bits) + extra + 1
\* with extra_bits = 2 for len = 2 and dict otherwise; it returns
\* BadDistance exactly when dist exceeds the bytes written so far, which
\* is exactly when dist exceeds window.len(); otherwise it enters Copy
\* with idx = window.len() - dist, which does not underflow.
C10_BadDistance ==
    /\ \A k \in 1..Len(hist.refs) :
        /\ hist.refs[k].extra_bits
               = (IF hist.refs[k].len = 2 THEN 2 ELSE dec.dict[1])
        /\ hist.refs[k].dist
               = hist.refs[k].symbol * 2^hist.refs[k].extra_bits
                 + hist.refs[k].extra + 1
        /\ hist.refs[k].bad <=> hist.refs[k].dist > hist.refs[k].nout
        /\ hist.refs[k].bad <=> hist.refs[k].dist > hist.refs[k].wlen
        /\ ~hist.refs[k].bad
               => /\ hist.refs[k].idx = hist.refs[k].wlen - hist.refs[k].dist
                  /\ hist.refs[k].idx >= 0
                  /\ hist.refs[k].idx < hist.refs[k].wlen
        /\ hist.refs[k].bad => k = Len(hist.refs)
    /\ ret = "BadDistance"
           <=> (hist.refs # <<>> /\ Last(hist.refs).bad)
    /\ ret = "BadDistance"
           => /\ dec.state.tag = "DistanceExtra"
              /\ result.kind = "BadDistance"
    /\ (dec.state.tag = "Copy" /\ hist.refs # <<>>)
           => ~Last(hist.refs).bad

\* a reference rejected after some output
C10_RejectedAfterOutput ==
    /\ ret = "BadDistance"
    /\ Len(dec.window) >= 1
    /\ Last(hist.refs).dist > Len(hist.out)

\* C12: once feed has returned BadLiteralFlag, BadDictionary or
\* BadDistance, no later feed on the engine writes an output byte, changes
\* lit or dict, or reaches End.
C12_FatalEndsDecoding ==
    hist.fatal # None
        => /\ Len(hist.out) = hist.fatal[1].nout
           /\ dec.lit = hist.fatal[1].lit
           /\ dec.dict = hist.fatal[1].dict
           /\ ~done(dec)

\* C13: when a cursor returns Invalid inside the engine, feed returns a
\* fatal error value: it neither goes on nor panics.
C13_InvalidIsError == hist.invalid => ret \in Fatal

\* ------------------------------------------------------------------------
\* Canonical codes, as the format defines them
\* ------------------------------------------------------------------------
\* the lengths a packed list stands for: entry n lies in the run of the
\* byte k whose run ends first at or after n
RunEnd(P, k) == LET S[q \in 0..k] == IF q = 0 THEN 0
                                     ELSE S[q - 1] + P[q] \div 16 + 1
                IN S[k]

Expansion(P) ==
    [n \in 1..RunEnd(P, Len(P)) |->
        P[CHOOSE k \in 1..Len(P) : RunEnd(P, k - 1) < n /\ n <= RunEnd(P, k)]
            % 16]

\* the list of code lengths the table is built from
Lengths == IF input.kind = "packed" THEN Expansion(input.v) ELSE input.v

LongestCode(L) == IF L = <<>> THEN 0
                  ELSE CHOOSE l \in 0..15 :
                           /\ \E j \in 1..Len(L) : L[j] = l
                           /\ \A j \in 1..Len(L) : L[j] <= l

NumOfLen(L, l) == Cardinality({j \in 1..Len(L) : L[j] = l})

\* the codes of length l left once the codes of lengths 1..l are assigned
RECURSIVE CodeSpaceLeft(_, _)
CodeSpaceLeft(L, l) ==
    IF l = 0 THEN 1 ELSE 2 * CodeSpaceLeft(L, l - 1) - NumOfLen(L, l)

IsOversubscribed(L) == \E l \in 1..LongestCode(L) : CodeSpaceLeft(L, l) < 0

\* the first code of length l
RECURSIVE FirstCode(_, _)
FirstCode(L, l) ==
    IF l <= 1 THEN 0
    ELSE 2 * (FirstCode(L, l - 1) + NumOfLen(L, l - 1))

\* the canonical code of symbol j - 1 (L[j] > 0), most significant bit first
Canon(L, j) ==
    [k \in 1..L[j] |->
        ((FirstCode(L, L[j]) + Cardinality({q \in 1..(j - 1) : L[q] = L[j]}))
             \div 2^(L[j] - k)) % 2 = 1]

\* the symbols of length l, by symbol index
OfLen(L, l) == SelectSeq([j \in 1..Len(L) |-> j - 1], LAMBDA x : L[x + 1] = l)

\* the used symbols by (code length, symbol index)
RECURSIVE UsedFrom(_, _)
UsedFrom(L, l) ==
    IF l > LongestCode(L) THEN <<>> ELSE OfLen(L, l) \o UsedFrom(L, l + 1)

Built == table.kind # "Unbuilt"

\* C14: every oversubscribed list of up to 256 lengths is rejected:
\* new_from_lengths returns None.
C14_OversubscribedRejected ==
    (Built /\ input.kind = "lengths" /\ IsOversubscribed(input.v))
        => table.kind = "None"

\* C15: every list of up to 256 lengths that is not oversubscribed is
\* accepted: new_from_lengths returns Some(table), it neither returns None
\* nor panics.
C15_OthersAccepted ==
    (Built /\ input.kind = "lengths" /\ ~IsOversubscribed(input.v))
        => table.kind = "Some"

\* C16: for an accepted list that is not oversubscribed and every used
\* symbol s, decode of the canonical code of s returns Some(s), and a fresh
\* cursor fed that code returns Incomplete for every bit but the last and
\* Ok(s) for the last.
C16_RoundTrip ==
    (table.kind = "Some" /\ ~IsOversubscribed(Lengths))
        => \A j \in 1..Len(Lengths) :
               Lengths[j] > 0
                   => /\ huffman_decode(table.t, Canon(Lengths, j))
                            = Some(j - 1)
                      /\ \A k \in 1..Min(Len(fed), Lengths[j]) :
                             SubSeq(fed, 1, k) = SubSeq(Canon(Lengths, j), 1, k)
                                 => results[k]
                                    = IF k < Lengths[j]
                                      THEN [res |-> "Incomplete", v |-> 0]
                                      ELSE [res |-> "Ok", v |-> j - 1]

\* the cursor has answered Incomplete to every bit before the k-th
Undecided(k) == \A q \in 1..(k - 1) : results[q].res = "Incomplete"

\* C17: a cursor on an accepted table returns Ok(s) only when the bits fed
\* since its creation are exactly the canonical code of s, and it answers
\* Incomplete to fewer bits than the longest code has: bits that run into
\* unassigned code space give Invalid by then, never Ok.
C17_DecodeSound ==
    table.kind = "Some"
        => \A k \in 1..Len(results) :
               Undecided(k)
                   => /\ results[k].res \in {"Incomplete", "Invalid", "Ok"}
                      /\ results[k].res = "Ok"
                             => \E j \in 1..Len(Lengths) :
                                    /\ Lengths[j] > 0
                                    /\ results[k].v = j - 1
                                    /\ SubSeq(fed, 1, k) = Canon(Lengths, j)
                      /\ results[k].res = "Incomplete"
                             => k < LongestCode(Lengths)

\* the cursor of tests::undersubscribed: the bits 1, 0, 1 on the table of
\* the lengths 1, 3 give Incomplete, Incomplete, Invalid
C17_Unassigned ==
    /\ input = [kind |-> "lengths", v |-> <<1, 3>>]
    /\ fed = <<TRUE, FALSE, TRUE>>
    /\ results[3].res = "Invalid"
    /\ Undecided(3)

\* C18: a list with no real code (empty, or all lengths 0) gives a table,
\* and every feed on a cursor of it returns Invalid.
C18_EmptyTable ==
    (Built /\ input.kind = "lengths"
           /\ \A j \in 1..Len(input.v) : input.v[j] = 0)
        => /\ table.kind = "Some"
           /\ \A k \in 1..Len(results) : results[k].res = "Invalid"

\* C19: an accepted table has max_len = max(L) + 1, counts[k] the number
\* of symbols of length k (k >= 1) and symbols the used symbols by (code
\* length, symbol index); new_from_packed_lengths gives the table of
\* new_from_lengths on the expansion; both are the table new(counts,
\* symbols) builds.
C19_Layout ==
    table.kind = "Some"
        => /\ table.t.max_len = LongestCode(Lengths) + 1
           /\ \A l \in 1..LongestCode(Lengths) :
                  table.t.counts[l + 1] = NumOfLen(Lengths, l)
           /\ table.t.symbols = UsedFrom(Lengths, 1)
           /\ table = new_from_lengths(Lengths, checked)
           /\ table.t = new(table.t.counts, UsedFrom(Lengths, 1))

\* C20: once the reader has delivered the output of a correctly
\* terminated stream it returns Ok(0), having read the inner source up to
\* the byte that completes the end sentinel: a trailing byte stays unread.
C20_TrailingUnread ==
    (data = Example \o <<42>> /\ ReaderStopped)
        => /\ rret = [kind |-> "Ok", n |-> 0]
           /\ ours = ExampleOut
           /\ inner = Len(Example)

\* C21: with a non-empty buffer read returns Ok(0) only once the engine is
\* at End, and on a truncated stream (the doc-test stream cut short) the
\* reads end with an error of kind UnexpectedEof.
C21_TruncatedIsEof ==
    /\ (rret = [kind |-> "Ok", n |-> 0] /\ Len(decbuf.buf) > 0) => done(dec)
    /\ (data \in Prefixes(Example) /\ Len(data) < Len(Example)
            /\ ReaderStopped)
         => rret.kind = "UnexpectedEof"

\* the last n elements of s
LastN(s, n) == SubSeq(s, Len(s) - n + 1, Len(s))

\* C22: the window holds exactly the last min(N, 4096) of the N bytes
\* written to output buffers so far, in output order, whatever handles
\* with_buffer has made in between; the filled part of the current buffer
\* is the end of that output.
C22_WindowIsOutputTail ==
    /\ dec.window = LastN(hist.out, Min(Len(hist.out), WindowCap))
    /\ decbuf.pos <= Len(hist.out)
    /\ get(decbuf) = LastN(hist.out, decbuf.pos)

\* more than 4096 bytes have been written: the window has evicted bytes
C22_Evicted ==
    /\ Len(hist.out) > WindowCap
    /\ Len(dec.window) = WindowCap
    /\ decbuf.pos > 0

\* the transitions of the grammar; Copy -> Copy is the Copy arm updating
\* its idx and len in place
Grammar ==
    {<<"Start", "Length">>, <<"Start", "Literal">>,
     <<"Start", "LiteralCoded">>, <<"Length", "LengthExtra">>,
     <<"LengthExtra", "End">>, <<"LengthExtra", "Distance">>,
     <<"Distance", "DistanceExtra">>, <<"DistanceExtra", "Copy">>,
     <<"Copy", "Copy">>, <<"Copy", "Start">>, <<"Literal", "Start">>,
     <<"LiteralCoded", "Start">>}

\* the edge e is a transition of the grammar, taken under its condition
OnGrammar(e) ==
    /\ <<e.from, e.to>> \in Grammar
    /\ e.to = "Length" => e.flag = 1
    /\ e.to = "Literal" => e.flag = 0 /\ e.lit = Some(0)
    /\ e.to = "LiteralCoded" => e.flag = 0 /\ e.lit = Some(1)
    /\ e.from # "Start" => e.lit # None
    /\ (e.from = "Copy" /\ e.to = "Start") => e.len = 0
    /\ (e.from = "Copy" /\ e.to = "Copy") => e.len > 0

\* C23: the state only changes along the transitions of the grammar, each
\* under its condition, it leaves Start only with both header fields set,
\* and a feed that has returned left the state at the variant of the arm
\* it was executing.
C23_GrammarOnly ==
    /\ \A e \in hist.edges : OnGrammar(e)
    /\ hist.edges # {} => dec.lit # None /\ dec.dict # None
    /\ dec.state.tag = hist.arm

\* a run over raw literals that has taken every transition but the one
\* to End, and whose last feed returned on a full buffer
C23_AllTaken ==
    /\ {<<e.from, e.to>> : e \in hist.edges}
           = Grammar \ {<<"LengthExtra", "End">>,
                         <<"Start", "LiteralCoded">>,
                         <<"LiteralCoded", "Start">>}
    /\ ret = "Ok"

Pending ==
    \/ dec.state.tag = "Copy" /\ dec.state.len > 0
    \/ dec.state.tag \in {"Literal", "LiteralCoded"}

\* what the engine holds apart from the input slot
Held(m) ==
    [state |-> m.dec.state, lit |-> m.dec.lit, dict |-> m.dec.dict,
     bitbuf |-> m.dec.input.bitbuf, bitcount |-> m.dec.input.bitcount,
     window |-> m.dec.window, decbuf |-> m.decbuf,
     taken |-> m.hist.taken, out |-> m.hist.out]

\* feed(byte) on the machine m returns Ok(()) and changes nothing of it
\* but the input slot
Refused(m, byte) ==
    /\ feed(m, byte).ret = "Ok"
    /\ Held(feed(m, byte).m) = Held(m)

\* C25: feed returns Ok(()) only at End or with a pending state (Copy with
\* len > 0, Literal, LiteralCoded) on a full buffer; a feed on that full
\* buffer writes and consumes nothing and keeps the pending state; and
\* pos never exceeds buf.len().
C25_OkMeansFullOrEnd ==
    /\ decbuf.pos <= Len(decbuf.buf)
    /\ ret = "Ok" =>
          \/ done(dec)
          \/ /\ Pending
             /\ decbuf.pos = Len(decbuf.buf)
             /\ \A byte \in {0, 255} : Refused(CurReader.m, byte)

\* a read has returned on a Copy that the full buffer suspended
C25_SuspendedCopy ==
    /\ ret = "Ok"
    /\ dec.state.tag = "Copy"
    /\ dec.state.len > 0
    /\ decbuf.pos = Len(decbuf.buf)

\* C26: lit is unset until the first stream byte, a value <= 1, has been
\* read and is that byte from then on; dict is unset until the second
\* stream byte, a value in 4..6, has been read and is that byte from then
\* on; the state machine has left Start only with both set.
C26_HeaderOnce ==
    /\ dec.lit # None
          => Len(hist.taken) >= 1 /\ data[1] <= 1 /\ dec.lit = Some(data[1])
    /\ dec.dict # None
          => /\ dec.lit # None
             /\ Len(hist.taken) >= 2
             /\ data[2] \in 4..6
             /\ dec.dict = Some(data[2])
    /\ (Len(hist.taken) >= 1 /\ data[1] <= 1) => dec.lit # None
    /\ (Len(hist.taken) >= 2 /\ data[1] <= 1 /\ data[2] \in 4..6)
          => dec.dict # None
    /\ hist.edges # {} => dec.lit # None /\ dec.dict # None

\* C27: a bits(n) call that returns Ok, n in 0..8, returns the next n
\* unread bits of the bytes taken, least significant bit of each byte first
\* and the earliest bit in the least significant position; bits(0) returns
\* 0 and takes no byte; and bitbuf and bitcount are as the last call that
\* returned Ok left them, so a call that failed has not changed them.
C27_BitsInOrder ==
    /\ \A r \in hist.reads :
          /\ r.n \in 0..8
          /\ r.val = r.want
          /\ r.n = 0 => r.val = 0 /\ r.took = 0
    /\ hist.left = [bitbuf |-> dec.input.bitbuf,
                    bitcount |-> dec.input.bitcount]
    /\ 8 * Len(hist.taken) = hist.consumed + dec.input.bitcount

\* a bits(8) call whose bits came from two bytes, the second of them taken
\* after a bits call had failed
C27_Straddled ==
    /\ \E r \in hist.reads :
          r.n = 8 /\ r.bitcount \in 1..7 /\ r.took = 1 /\ r.val \notin {0, 255}
    /\ Len(hist.taken) = 2

\* C28: the engine holds less than one byte of unread bits between bits
\* calls (bitcount <= 7 and bitbuf < 2^bitcount), a bits call takes at
\* most one byte from the slot, and so does a whole feed call.
C28_OnePendingByte ==
    /\ \A r \in hist.reads :
          r.bitcount <= 7 /\ ~r.spill /\ r.took \in {0, 1}
    /\ dec.input.bitcount <= 7
    /\ dec.input.bitbuf < Pow2(dec.input.bitcount)
    /\ Len(hist.taken) - hist.mark \in {0, 1}

\* the feed call in progress took its byte in a bits(1) call, which left
\* seven bits behind
C28_SevenLeft ==
    /\ Len(hist.taken) - hist.mark = 1
    /\ \E r \in hist.reads : r.n = 1 /\ r.took = 1 /\ r.bitcount = 7
    /\ ret = "Continue"

\* the length LengthExtra computed on the edge e
LenOf(e) == LEN_BASE[e.symbol + 1] + e.extra

\* C29: the length LengthExtra computes from a symbol in 0..15 and its
\* LEN_EXTRA[symbol] extra bits is in 2..519; it is 519 only for symbol 15
\* with the extra bits 255, and exactly then the state becomes End;
\* otherwise the state becomes Distance with that length, in 2..518, and
\* every Copy starts with a length in 2..518.
C29_LengthRange ==
    \A e \in hist.edges :
        /\ e.from = "LengthExtra" =>
              /\ e.symbol \in 0..15
              /\ e.extra \in 0..(Pow2(LEN_EXTRA[e.symbol + 1]) - 1)
              /\ LenOf(e) \in 2..519
              /\ LenOf(e) = 519 <=> (e.symbol = 15 /\ e.extra = 255)
              /\ e.to = "End" <=> LenOf(e) = 519
              /\ e.to = "Distance" <=> (LenOf(e) # 519 /\ e.carried = LenOf(e))
              /\ e.to \in {"End", "Distance"}
        /\ (e.from = "DistanceExtra" /\ e.to = "Copy") => e.carried \in 2..518

\* symbol 15 with all eight extra bits set has ended the stream
C29_EndCode ==
    /\ dec.state.tag = "End"
    /\ \E e \in hist.edges :
          e.from = "LengthExtra" /\ e.symbol = 15 /\ e.extra = 255

\* C30: whenever the state is Copy with len > 0 its idx is below
\* window.len(): when Copy is entered, after every copied byte and in
\* every state a full buffer suspended; an index that reaches window.len()
\* becomes 0, any other advances by one; the read window[idx] never
\* panics.
C30_IdxInWindow ==
    /\ (dec.state.tag = "Copy" /\ dec.state.len > 0)
          => dec.state.idx < Len(dec.window)
    /\ \A e \in hist.edges :
          /\ (e.to = "Copy" /\ e.carried > 0) => e.inside
          /\ (e.from = "Copy" /\ e.to = "Copy")
                => IF e.wrapped THEN e.zero ELSE e.stepped
    /\ ret = "Panic" => hist.arm # "Copy"

\* a copy on the full window, read in small pieces, whose index reached
\* window.len() and became 0
C30_Wrapped ==
    /\ Len(dec.window) = WindowCap
    /\ Len(decbuf.buf) <= MaxRead
    /\ \E e \in hist.edges : e.wrapped /\ e.zero

\* C31: the input slot is Waiting exactly on a fresh engine and after a
\* feed that returned IncompleteInput, whatever feed, reset and with_buffer
\* calls were made; so take never finds it Waiting (feed latches a byte
\* first) and no feed ends in the panic "double take", which would leave
\* the slot Waiting.
C31_NeverDoubleTake ==
    dec.input.next.tag = "Waiting" <=> ret \in {NoRet, "IncompleteInput"}

\* the slot is Waiting for the third time or later, after output was
\* written and the handle was reset or replaced
C31_WaitingAgain ==
    /\ dec.input.next.tag = "Waiting"
    /\ ret = "IncompleteInput"
    /\ Len(hist.taken) >= 3
    /\ hist.out # <<>>
    /\ decbuf.pos = 0

\* C32: when the slot is not Waiting, the byte passed to feed is not
\* observed: feed reaches the same engine state, buffer, return value and
\* output whatever byte it is passed.
C32_ByteUnobserved ==
    dec.input.next.tag # "Waiting" /\ Usable
        => Cardinality({feed(Cur.m, byte) : byte \in CallBytes}) = 1

\* after output was written, feed was passed another byte than the one
\* taken last while the slot was Taken, and returned Ok
C32_Ignored ==
    /\ dec.input.next.tag = "Taken"
    /\ data # <<hist.taken[Len(hist.taken)]>>
    /\ ret = "Ok"
    /\ hist.out # <<>>
    /\ Len(hist.taken) < i

\* the iteration of the loop of explode_with_buffer that leads from the
\* run s to the run t returned, advanced the input index, wrote output or
\* changed the engine (its state, bit buffer, slot, header or window)
Advanced(s, t) ==
    \/ t.result.kind # "Running"
    \/ t.i > s.i
    \/ Len(t.m.hist.out) > Len(s.m.hist.out)
    \/ t.m.dec # s.m.dec

\* C33: explode_with_buffer terminates for every input and every buffer
\* length, zero included: while it runs, the next iteration of its loop
\* returns, advances the input index or advances decoding.
C33_EveryIterationAdvances ==
    result = Running => Advanced(Cur, ewb_step(data, Cur))

\* C34: on a table that new_from_lengths returned and on the three tables
\* of tables.rs, whatever bits the cursor is fed, code >= first at every
\* comparison (code only grows by the bit or-ed in), the count read is
\* inside counts, no feed panics, and Ok carries
\* symbols[index + (code - first)] with that index inside symbols.
C34_CursorInBounds ==
    /\ cursor.code >= cursor.first
    /\ cursor.codebook.max_len <= Len(cursor.codebook.counts)
    /\ \A k \in 1..Len(results) :
          /\ results[k].res \in {"Ok", "Invalid", "Incomplete"}
          /\ results[k].res = "Ok"
                => /\ cursor.index + (cursor.code - cursor.first)
                          < Len(cursor.codebook.symbols)
                   /\ results[k].v =
                          cursor.codebook.symbols[cursor.index
                              + (cursor.code - cursor.first) + 1]

\* a cursor on DISTANCE returned the last symbol it can return, after it
\* had moved index and first
C34_DeepSymbol ==
    /\ table.t = DISTANCE
    /\ results # <<>>
    /\ results[1].res = "Ok"
    /\ cursor.index > 0
    /\ cursor.first > 0
    /\ cursor.code > cursor.first

\* C35: decode_with_buffer of decoder.rs and explode_with_buffer return
\* the same result for the same data and the same non-empty buffer: the
\* same output bytes or the same error (or both panic).
C35_RevisionsAgree ==
    result.kind # "Running" /\ older.kind # "Running"
        => /\ older.kind = result.kind
           /\ older.out = result.out

====
